---- MODULE Spec2Model ----
(***************************************************************************)
(* Model of the internal link suggester (src/app.py): the chunker, the     *)
(* anchor selector, the relevance scorer, the suggestion generator of      *)
(* class LinkSuggester, and the JSON-backed URLDatabase.                   *)
(*                                                                         *)
(* Strings are sequences of one-character strings.  Scores are exact       *)
(* integers in units of 1/ScoreScale.                                      *)
(***************************************************************************)
EXTENDS Integers, Sequences, FiniteSets, TLC

VARIABLES
    pc,                 \* position of the operation under way
    content,            \* argument `content`
    chunk_size,         \* argument `chunk_size` of extract_text_chunks
    chunks,             \* value returned by extract_text_chunks
    chunk,              \* argument `chunk` of suggest_anchor_text
    url_data,           \* argument `url_data` of suggest_anchor_text
    anchor,             \* value returned by suggest_anchor_text
    data,               \* URLDatabase.data, the in-memory catalog
    db_file,            \* the content of the file named URLDatabase.db_file
    clock,              \* the time datetime.now() returns next
    last_call,          \* the URLDatabase method called last, and the state
                        \* it was called in
    url_database,       \* argument `url_database` of generate_suggestions
    max_suggestions,    \* argument `max_suggestions`
    tfidf,              \* what the vectorizer gave for each pair of texts
                        \* fitted so far
    ci,                 \* index of the chunk the loop of line 390 is at
    scored,             \* the (chunk, url) pairs scored in this call
    all_suggestions,    \* local `all_suggestions`
    seen_urls,          \* local `seen_urls`
    diverse_suggestions,\* local `diverse_suggestions`
    pass1_urls,         \* the URLs selected by the first pass
    suggestions,        \* value returned by generate_suggestions
    calls,              \* number of calls of generate_suggestions so far
    first_result,       \* value returned by the first call
    df,                 \* the DataFrame parse_uploaded_file returned
    row_i,              \* number of rows the loop of line 192 has handled
    imported,           \* local `imported` of import_urls_from_file
    errors,             \* local `errors` of import_urls_from_file
    accepted_links,     \* st.session_state.accepted_links
    rejected_links,     \* st.session_state.rejected_links
    final_content,      \* local `final_content` of main
    landings            \* where each replace of line 822 found its anchor

chunkVars  == <<content, chunk_size, chunks>>
anchorVars == <<chunk, url_data, anchor>>
dbVars     == <<data, db_file, clock, last_call>>
genVars    == <<url_database, max_suggestions, tfidf, ci, scored,
               all_suggestions, seen_urls, diverse_suggestions, pass1_urls,
               suggestions, calls, first_result>>
importVars == <<df, row_i, imported, errors>>
applyVars  ==
    <<accepted_links, rejected_links, final_content, landings>>
vars == <<pc, chunkVars, anchorVars, dbVars, genVars, importVars,
         applyVars>>

----------------------------------------------------------------------------
(* Bounds of the model *)

MaxContentLen == 5      \* longest content enumerated for the chunker
MaxChunkSize  == 5      \* chunk_size ranges over 1..MaxChunkSize there
MaxChunkLen   == 3      \* longest chunk enumerated for the anchor selector
MaxHeadingLen == 2      \* longest h1 / title / h2 entry enumerated there
MaxH2         == 2      \* longest h2 list enumerated there
MaxClock      == 8      \* datetime.now() is called at most MaxClock times
MaxUrls       == 3      \* largest catalog given to generate_suggestions
MaxLimit      == 5      \* max_suggestions ranges over 0..MaxLimit
MaxCalls      == 2      \* generate_suggestions is called at most MaxCalls times
MaxRows       == 2      \* most rows of an imported file
MaxAccepted   == 2      \* most suggestions shown when links are accepted

----------------------------------------------------------------------------
(* Characters and strings *)

Whitespace == {" "}
Punct      == {".", "!", "?"}

Max(a, b) == IF a >= b THEN a ELSE b
Min(a, b) == IF a <= b THEN a ELSE b

\* All strings over an alphabet, of length at most n.
StringsUpTo(alphabet, n) == UNION {[1..k -> alphabet] : k \in 0..n}

\* The elements of a finite set of integers, in increasing order.
SortedSeq(S) ==
    [k \in 1..Cardinality(S) |->
        CHOOSE x \in S : Cardinality({y \in S : y < x}) = k - 1]

\* s[a:b] of Python for 0 <= a, 0 <= b: indices clamp to the length.
Slice(s, a, b) ==
    LET lo == Min(a, Len(s))
        hi == Min(b, Len(s))
    IN  IF hi <= lo THEN <<>> ELSE SubSeq(s, lo + 1, hi)

RECURSIVE LStrip(_)
LStrip(s) ==
    IF s # <<>> /\ Head(s) \in Whitespace THEN LStrip(Tail(s)) ELSE s

RECURSIVE RStrip(_)
RStrip(s) ==
    IF s # <<>> /\ s[Len(s)] \in Whitespace
    THEN RStrip(SubSeq(s, 1, Len(s) - 1)) ELSE s

\* str.strip()
Strip(s) == RStrip(LStrip(s))

\* sub occurs in s at 0-based offset i
OccursAt(s, sub, i) ==
    /\ i >= 0
    /\ i + Len(sub) <= Len(s)
    /\ SubSeq(s, i + 1, i + Len(sub)) = sub

\* str.find(sub, start): lowest 0-based offset >= start, or -1.  A negative
\* start counts from the end of s, as Python does.
Find(s, sub, start) ==
    LET from == IF start < 0 THEN Max(Len(s) + start, 0) ELSE start
        hits == {i \in from..(Len(s) - Len(sub)) : OccursAt(s, sub, i)}
    IN  IF hits = {} THEN -1
        ELSE CHOOSE i \in hits : \A j \in hits : i <= j

\* `sub in s`
Contains(s, sub) == Find(s, sub, 0) # -1

----------------------------------------------------------------------------
(* Python dicts *)

\* A Python dict is a sequence of <<key, value>> pairs with distinct keys,
\* in insertion order.
DictKeys(d) == [i \in 1..Len(d) |-> d[i][1]]
DictHas(d, k) == \E i \in 1..Len(d) : d[i][1] = k
DictGet(d, k) == d[CHOOSE i \in 1..Len(d) : d[i][1] = k][2]

\* d[k] = v: an existing key keeps its place, a new key goes last.
DictSet(d, k, v) ==
    IF DictHas(d, k)
    THEN [i \in 1..Len(d) |-> IF d[i][1] = k THEN <<k, v>> ELSE d[i]]
    ELSE Append(d, <<k, v>>)

\* del d[k]
DictDel(d, k) == SelectSeq(d, LAMBDA kv : kv[1] # k)

\* dict.get(key, default) on a record-like dict
Get(d, key, default) == IF key \in DOMAIN d THEN d[key] ELSE default

----------------------------------------------------------------------------
(* LinkSuggester.extract_text_chunks *)

\* re.split(r'[.!?]+', content): the pieces between maximal runs of
\* sentence punctuation, empty pieces included.  A piece starts at the first
\* character and after every run; it ends before the next punctuation.
SplitSentences(s) ==
    LET punct  == {i \in 1..Len(s) : s[i] \in Punct}
        starts == {1} \cup {i + 1 : i \in {j \in punct : j + 1 \notin punct}}
        order  == SortedSeq(starts)
        piece(b) ==
            LET ends == {j \in punct : j >= b}
                e    == IF ends = {} THEN Len(s)
                        ELSE (CHOOSE j \in ends : \A k \in ends : j <= k) - 1
            IN  IF e < b THEN <<>> ELSE SubSeq(s, b, e)
    IN  [k \in 1..Len(order) |-> piece(order[k])]

\* A mutant of ChunkStep: the sentence that closes a chunk is not carried
\* over into the new buffer.
ChunkStepDropsSentence(cont, size, st, rawSentence) ==
    LET sentence == Strip(rawSentence) IN
    IF sentence = <<>> THEN st
    ELSE IF Len(st.current_chunk) + Len(sentence) < size
         THEN [st EXCEPT !.current_chunk = @ \o sentence \o <<".", " ">>]
         ELSE [chunks |->
                  IF st.current_chunk # <<>>
                  THEN Append(st.chunks, [text     |-> Strip(st.current_chunk),
                                          position |-> st.start_pos])
                  ELSE st.chunks,
               current_chunk |-> <<>>,
               start_pos |-> Find(cont, sentence, st.start_pos)]

\* A mutant of ChunkStep: empty sentences are not skipped.
ChunkStepKeepsEmpty(cont, size, st, rawSentence) ==
    LET sentence == Strip(rawSentence) IN
    IF Len(st.current_chunk) + Len(sentence) < size
    THEN [st EXCEPT !.current_chunk = @ \o sentence \o <<".", " ">>]
    ELSE [chunks |->
             IF st.current_chunk # <<>>
             THEN Append(st.chunks, [text     |-> Strip(st.current_chunk),
                                     position |-> st.start_pos])
             ELSE st.chunks,
          current_chunk |-> sentence \o <<".", " ">>,
          start_pos |-> Find(cont, sentence, st.start_pos)]

\* A mutant of ChunkStep: a sentence that makes the buffer reach chunk_size
\* is still added.
ChunkStepInclusive(cont, size, st, rawSentence) ==
    LET sentence == Strip(rawSentence) IN
    IF sentence = <<>> THEN st
    ELSE IF Len(st.current_chunk) + Len(sentence) <= size
         THEN [st EXCEPT !.current_chunk = @ \o sentence \o <<".", " ">>]
         ELSE [chunks |->
                  IF st.current_chunk # <<>>
                  THEN Append(st.chunks, [text     |-> Strip(st.current_chunk),
                                          position |-> st.start_pos])
                  ELSE st.chunks,
               current_chunk |-> sentence \o <<".", " ">>,
               start_pos |-> Find(cont, sentence, st.start_pos)]

\* One iteration of the loop over sentences (lines 284-298).
ChunkStep(cont, size, st, rawSentence) ==
    LET sentence == Strip(rawSentence) IN
    IF sentence = <<>> THEN st
    ELSE IF Len(st.current_chunk) + Len(sentence) < size
         THEN [st EXCEPT !.current_chunk = @ \o sentence \o <<".", " ">>]
         ELSE [chunks |->
                  IF st.current_chunk # <<>>
                  THEN Append(st.chunks, [text     |-> Strip(st.current_chunk),
                                          position |-> st.start_pos])
                  ELSE st.chunks,
               current_chunk |-> sentence \o <<".", " ">>,
               start_pos |-> Find(cont, sentence, st.start_pos)]

RECURSIVE ChunkLoop(_, _, _, _, _)
ChunkLoop(cont, size, sentences, i, st) ==
    IF i > Len(sentences) THEN st
    ELSE ChunkLoop(cont, size, sentences, i + 1,
                   ChunkStep(cont, size, st, sentences[i]))

\* A mutant of FlushChunk: the buffer still open after the loop is lost.
FlushChunkMissing(st) == st.chunks

\* The trailing flush of the open buffer (lines 300-304).
FlushChunk(st) ==
    IF st.current_chunk # <<>>
    THEN Append(st.chunks, [text     |-> Strip(st.current_chunk),
                            position |-> st.start_pos])
    ELSE st.chunks

ExtractTextChunks(cont, size) ==
    FlushChunk(ChunkLoop(cont, size, SplitSentences(cont), 1,
                         [chunks |-> <<>>, current_chunk |-> <<>>,
                          start_pos |-> 0]))

----------------------------------------------------------------------------
(* LinkSuggester.suggest_anchor_text *)

\* The characters whose lower-case form differs.  "U+0130" stands for the
\* single character LATIN CAPITAL LETTER I WITH DOT ABOVE, whose str.lower()
\* is the two characters "i" and U+0307.
UpperLetters ==
    <<"A", "B", "C", "D", "E", "F", "G", "H", "I", "J", "K", "L", "M", "N",
      "O", "P", "Q", "R", "S", "T", "U", "V", "W", "X", "Y", "Z">>
LowerLetters ==
    <<"a", "b", "c", "d", "e", "f", "g", "h", "i", "j", "k", "l", "m", "n",
      "o", "p", "q", "r", "s", "t", "u", "v", "w", "x", "y", "z">>

LowerChar(c) ==
    IF c = "U+0130" THEN <<"i", "U+0307">>
    ELSE IF \E i \in 1..26 : UpperLetters[i] = c
         THEN <<LowerLetters[CHOOSE i \in 1..26 : UpperLetters[i] = c]>>
         ELSE <<c>>

\* str.lower(), character by character; the halves are lowered apart to
\* keep the recursion shallow.
RECURSIVE Lower(_)
Lower(s) ==
    IF s = <<>> THEN <<>>
    ELSE IF Len(s) = 1 THEN LowerChar(s[1])
    ELSE LET h == Len(s) \div 2
         IN  Lower(SubSeq(s, 1, h)) \o Lower(SubSeq(s, h + 1, Len(s)))

LearnMore == <<"L", "e", "a", "r", "n", " ", "m", "o", "r", "e">>

\* The candidate recorded for h1 or title (lines 347-353); `needle` is the
\* lower-cased heading.
HeadingCandidates(chunkText, chunk_lower, needle) ==
    IF needle # <<>> /\ Contains(chunk_lower, needle)
    THEN LET start == Find(chunk_lower, needle, 0)
         IN  <<Slice(chunkText, start, start + Len(needle))>>
    ELSE <<>>

\* A mutant of H2Candidates: every sub-heading is recorded, found or not.
H2CandidatesUnchecked(chunkText, chunk_lower, h2list, i) ==
    [k \in 1..Len(h2list) |-> h2list[k]]

\* The candidates recorded by the loop over h2 (lines 355-359), from the
\* i-th entry on.
RECURSIVE H2Candidates(_, _, _, _)
H2Candidates(chunkText, chunk_lower, h2list, i) ==
    IF i > Len(h2list) THEN <<>>
    ELSE LET h2       == h2list[i]
             h2_lower == Lower(h2)
             rest     == H2Candidates(chunkText, chunk_lower, h2list, i + 1)
         IN  IF Contains(chunk_lower, h2_lower)
             THEN LET start == Find(chunk_lower, h2_lower, 0)
                  IN  <<Slice(chunkText, start, start + Len(h2))>> \o rest
             ELSE rest

\* max(candidates, key=len): the first candidate of maximal length.
MaxByLen(candidates) ==
    LET best == CHOOSE i \in 1..Len(candidates) :
                    /\ \A j \in 1..Len(candidates) :
                           Len(candidates[j]) <= Len(candidates[i])
                    /\ \A j \in 1..(i - 1) :
                           Len(candidates[j]) < Len(candidates[i])
    IN  candidates[best]

\* The value returned when nothing was found (line 364).
AnchorFallback(d) == Get(d, "h1", Get(d, "title", LearnMore))

AnchorFor(chunkText, chunk_lower, d) ==
    LET h1         == Lower(Get(d, "h1", <<>>))
        title      == Lower(Get(d, "title", <<>>))
        candidates == HeadingCandidates(chunkText, chunk_lower, h1)
                      \o HeadingCandidates(chunkText, chunk_lower, title)
                      \o H2Candidates(chunkText, chunk_lower,
                                      Get(d, "h2", <<>>), 1)
    IN  IF candidates # <<>> THEN MaxByLen(candidates)
        ELSE AnchorFallback(d)

SuggestAnchorText(chunkText, d) == AnchorFor(chunkText, Lower(chunkText), d)

----------------------------------------------------------------------------
(* LinkSuggester.calculate_relevance_score *)

\* Scores are integers in units of 1/ScoreScale, so that the weights 0.7 and
\* 0.3, the boosts 1.1 and 1.05 and the thresholds are exact.
ScoreScale == 60000

\* A similarity is given in hundredths; SimFail stands for fit_transform
\* raising (the vocabulary of the two texts is empty).
SimFail   == -1
SimLevels == {5, 20, 90}

IsWordChar(c) == c \notin (Whitespace \cup Punct)

\* re.findall(r'\b\w{n,}\b', s) as a set: the maximal runs of word
\* characters of length at least minLen.
Words(s, minLen) ==
    LET stops  == {i \in 1..(Len(s) + 1) :
                      IF i > Len(s) THEN TRUE ELSE ~IsWordChar(s[i])}
        starts == {i \in 1..Len(s) :
                      /\ i \notin stops
                      /\ (i = 1 \/ (i - 1) \in stops)}
        end(b) == LET after == {j \in stops : j > b}
                  IN  (CHOOSE j \in after : \A k \in after : j <= k) - 1
    IN  {w \in {SubSeq(s, b, end(b)) : b \in starts} : Len(w) >= minLen}

\* What TfidfVectorizer.fit_transform followed by cosine_similarity can
\* give for two texts (lines 315-318).  The vectorizer keeps lower-cased
\* tokens of two or more word characters: with no token in either text it
\* raises; with no token in common the cosine is 0; otherwise the cosine is
\* positive, and which positive value is left open.
TfidfOutcomes(content_text, url_text) ==
    LET a == Words(Lower(content_text), 2)
        b == Words(Lower(url_text), 2)
    IN  IF a \cup b = {} THEN {SimFail}
        ELSE IF a \cap b = {} THEN {0}
        ELSE SimLevels

\* A mutant of KeywordOverlap: the overlap is taken over the words of the
\* destination.
KeywordOverlapOfUrlWords(content_text, url_text) ==
    LET content_words == Words(Lower(content_text), 4)
        url_words     == Words(Lower(url_text), 4)
    IN  IF url_words # {}
        THEN (Cardinality(content_words \cap url_words) * 3 * (ScoreScale \div 10))
                 \div Cardinality(url_words)
        ELSE 0

\* keyword_overlap * 0.3 in score units (lines 321-330).
KeywordOverlap(content_text, url_text) ==
    LET content_words == Words(Lower(content_text), 4)
        url_words     == Words(Lower(url_text), 4)
    IN  IF content_words # {}
        THEN (Cardinality(content_words \cap url_words) * 3 * (ScoreScale \div 10))
                 \div Cardinality(content_words)
        ELSE 0

\* A mutant of CalculateRelevanceScore: no except clause, the failure of
\* fit_transform propagates to the caller.
CalculateRelevanceScoreUnguarded(sim, overlap) ==
    IF sim = SimFail
    THEN [raised |-> TRUE, value |-> 0]
    ELSE [raised |-> FALSE,
          value  |-> sim * 7 * (ScoreScale \div 1000) + overlap]

\* calculate_relevance_score, given what the vectorizer yields for the two
\* texts and the weighted keyword overlap of the two texts: the value
\* returned, and whether an exception leaves the function.
CalculateRelevanceScore(sim, overlap) ==
    IF sim = SimFail
    THEN [raised |-> FALSE, value |-> 0]
    ELSE [raised |-> FALSE,
          value  |-> sim * 7 * (ScoreScale \div 1000) + overlap]

----------------------------------------------------------------------------
(* TfidfVectorizer(max_features=1000, ngram_range=(1, 3),                   *)
(* stop_words='english') fitted on two texts, and their cosine similarity   *)
(* (lines 273-277 and 315-318), computed.                                   *)

\* The words of scikit-learn's English stop list that the texts below hold.
StopWords == {<<"i", "s">>, <<"o", "n", "e">>, <<"f", "i", "n", "d">>}

\* The analyzer's tokens: the text lower-cased, its runs of two or more word
\* characters in order, the stop words dropped.
Tokens(s) ==
    LET t      == Lower(s)
        stops  == {i \in 1..(Len(t) + 1) :
                      IF i > Len(t) THEN TRUE ELSE ~IsWordChar(t[i])}
        starts == SortedSeq({i \in 1..Len(t) :
                      /\ i \notin stops
                      /\ (i = 1 \/ (i - 1) \in stops)})
        end(b) == LET after == {j \in stops : j > b}
                  IN  (CHOOSE j \in after : \A k \in after : j <= k) - 1
        runs   == <<>> \o [k \in 1..Len(starts) |->
                              SubSeq(t, starts[k], end(starts[k]))]
    IN  SelectSeq(runs, LAMBDA w : Len(w) >= 2 /\ w \notin StopWords)

\* The n-grams of n = 1, 2, 3 consecutive tokens, each as often as it occurs.
NGrams(tokens) ==
    LET of(n) == IF Len(tokens) < n THEN <<>>
                 ELSE [k \in 1..(Len(tokens) - n + 1) |->
                          SubSeq(tokens, k, k + n - 1)]
    IN  <<>> \o of(1) \o of(2) \o of(3)

\* The largest r with r * r <= n, looked for between lo and hi.
RECURSIVE IsqrtBetween(_, _, _)
IsqrtBetween(n, lo, hi) ==
    IF lo >= hi THEN lo
    ELSE LET mid == (lo + hi + 1) \div 2
         IN  IF mid * mid <= n THEN IsqrtBetween(n, mid, hi)
             ELSE IsqrtBetween(n, lo, mid - 1)

Isqrt(n) == IsqrtBetween(n, 0, 46340)

\* The cosine of the two l2-normalised tf-idf rows, in hundredths and to
\* within one hundredth; SimFail when the vocabulary is empty (fit_transform
\* raises).
\* With two documents and smooth idf a term of both texts has idf 1 and a
\* term of one text has idf 1 + ln(3/2), whose square is 79/40 to four
\* digits.  The texts are far too short for max_features to drop a term.
TfidfSimilarity(content_text, url_text) ==
    LET a == NGrams(Tokens(content_text))
        b == NGrams(Tokens(url_text))
        \* sums of tf * tf over the terms, counted as pairs of occurrences
        dot == Cardinality({p \in (1..Len(a)) \X (1..Len(b)) :
                               a[p[1]] = b[p[2]]})
        sq(x, y) ==
            LET same   == {p \in (1..Len(x)) \X (1..Len(x)) :
                              x[p[1]] = x[p[2]]}
                shared == {p \in same : \E j \in 1..Len(y) : y[j] = x[p[1]]}
            IN  Cardinality(shared) * 40 + Cardinality(same \ shared) * 79
        ra == Isqrt(sq(a, b) * 100)
        rb == Isqrt(sq(b, a) * 100)
    IN  IF Len(a) + Len(b) = 0 THEN SimFail
        ELSE IF dot = 0 THEN 0
        ELSE Min(100, (dot * 400000) \div (ra * rb))

----------------------------------------------------------------------------
(* LinkSuggester.generate_suggestions *)

DefaultChunkSize == 200

\* The thresholds 0.20, 0.25 and 0.35 in score units.
EmitThreshold  == (20 * ScoreScale) \div 100
Pass2Threshold == (25 * ScoreScale) \div 100
Pass1Threshold == (35 * ScoreScale) \div 100

\* ' '.join(list)
RECURSIVE Join(_, _)
Join(list, sep) ==
    IF list = <<>> THEN <<>>
    ELSE IF Len(list) = 1 THEN list[1]
    ELSE list[1] \o sep \o Join(Tail(list), sep)

\* combined_text of a destination (line 378)
UrlText(d) ==
    Get(d, "title", <<>>) \o <<".", " ">> \o Get(d, "h1", <<>>) \o <<".", " ">>
    \o Get(d, "meta_description", <<>>) \o <<".", " ">>
    \o Join(Get(d, "h2", <<>>), <<" ">>)

PageType(d) == Get(d, "page_type", "Other")

\* A mutant of Boost: the page type Guide is left out of the boosted types.
BoostWithoutGuide(page_type, score) ==
    IF page_type \in {"Product", "Glossary"} THEN (score * 11) \div 10
    ELSE IF page_type = "Landing Page" THEN (score * 105) \div 100
    ELSE score

\* The boost by page type (lines 407-410).
Boost(page_type, score) ==
    IF page_type \in {"Product", "Glossary", "Guide"} THEN (score * 11) \div 10
    ELSE IF page_type = "Landing Page" THEN (score * 105) \div 100
    ELSE score

\* A mutant of InsertDesc: the order of equal scores is not the order of
\* insertion but changes from one call to the next.
InsertDescUnstable(sorted, x) ==
    LET k == IF calls % 2 = 1
             THEN Cardinality({i \in 1..Len(sorted) : sorted[i].score >= x.score})
             ELSE Cardinality({i \in 1..Len(sorted) : sorted[i].score > x.score})
    IN  SubSeq(sorted, 1, k) \o <<x>> \o SubSeq(sorted, k + 1, Len(sorted))

\* A mutant of InsertDesc: the sort is ascending.
InsertAsc(sorted, x) ==
    LET k == Cardinality({i \in 1..Len(sorted) : sorted[i].score <= x.score})
    IN  SubSeq(sorted, 1, k) \o <<x>> \o SubSeq(sorted, k + 1, Len(sorted))

\* list.sort(key=score, reverse=True): descending and stable, equal scores
\* keep their order.
InsertDesc(sorted, x) ==
    LET k == Cardinality({i \in 1..Len(sorted) : sorted[i].score >= x.score})
    IN  SubSeq(sorted, 1, k) \o <<x>> \o SubSeq(sorted, k + 1, Len(sorted))

RECURSIVE SortFrom(_, _, _)
SortFrom(s, i, sorted) ==
    IF i > Len(s) THEN sorted
    ELSE SortFrom(s, i + 1, InsertDesc(sorted, s[i]))

SortByScoreDesc(s) == SortFrom(s, 1, <<>>)

\* The candidate emitted for a chunk and a destination (lines 420-431).
Candidate(ch, url, d, score) ==
    [url          |-> url,
     anchor_text  |-> SuggestAnchorText(ch.text, d),
     context      |-> Slice(ch.text, 0, 150) \o <<".", ".", ".">>,
     score        |-> score,
     position     |-> ch.position,
     target_h1    |-> Get(d, "h1", <<>>),
     target_title |-> Get(d, "title", <<>>),
     page_type    |-> PageType(d)]

\* A mutant of ChunkCandidates: the four best scores of a chunk are kept.
ChunkCandidatesTopFour(ch, db, scores) ==
    LET top  == Slice(SortByScoreDesc(scores), 0, 4)
        kept == SelectSeq(top, LAMBDA e : e.score > EmitThreshold)
    IN  [i \in 1..Len(kept) |->
            Candidate(ch, kept[i].url, DictGet(db, kept[i].url),
                      kept[i].score)]

\* The candidates of one chunk (lines 415-431): `scores` holds one
\* [url, score] per destination, in catalog order.
ChunkCandidates(ch, db, scores) ==
    LET top  == Slice(SortByScoreDesc(scores), 0, 3)
        kept == SelectSeq(top, LAMBDA e : e.score > EmitThreshold)
    IN  [i \in 1..Len(kept) |->
            Candidate(ch, kept[i].url, DictGet(db, kept[i].url),
                      kept[i].score)]

\* The state of the two selection loops: what is selected so far, and
\* whether the loop has hit its break.
SelectionStart ==
    [seen_urls |-> {}, diverse_suggestions |-> <<>>,
     page_type_counts |-> [t \in {} |-> 0], stopped |-> FALSE]

Select(st, sugg, limit) ==
    [seen_urls           |-> st.seen_urls \cup {sugg.url},
     diverse_suggestions |-> Append(st.diverse_suggestions, sugg),
     page_type_counts    |->
         [t \in DOMAIN st.page_type_counts \cup {sugg.page_type} |->
             IF t = sugg.page_type
             THEN Get(st.page_type_counts, t, 0) + 1
             ELSE st.page_type_counts[t]],
     stopped             |-> Len(st.diverse_suggestions) + 1 >= limit]

\* A mutant of Pass1Step: the Blog quota of 40% is not applied.
Pass1StepNoBlogQuota(st, sugg, limit) ==
    IF st.stopped \/ sugg.url \in st.seen_urls THEN st
    ELSE LET type_count == Get(st.page_type_counts, sugg.page_type, 0) IN
         IF type_count * 2 >= limit THEN st
         ELSE IF sugg.score > Pass1Threshold THEN Select(st, sugg, limit)
         ELSE st

\* A mutant of Pass1Step: the first pass accepts with the threshold of the
\* second.
Pass1StepLowThreshold(st, sugg, limit) ==
    IF st.stopped \/ sugg.url \in st.seen_urls THEN st
    ELSE LET type_count == Get(st.page_type_counts, sugg.page_type, 0) IN
         IF sugg.page_type = "Blog" /\ type_count * 10 >= limit * 4 THEN st
         ELSE IF type_count * 2 >= limit THEN st
         ELSE IF sugg.score > Pass2Threshold THEN Select(st, sugg, limit)
         ELSE st

\* One iteration of the first pass (lines 442-463).  type_count >= 0.4 * limit
\* and type_count >= 0.5 * limit are compared in integers.
Pass1Step(st, sugg, limit) ==
    IF st.stopped \/ sugg.url \in st.seen_urls THEN st
    ELSE LET type_count == Get(st.page_type_counts, sugg.page_type, 0) IN
         IF sugg.page_type = "Blog" /\ type_count * 10 >= limit * 4 THEN st
         ELSE IF type_count * 2 >= limit THEN st
         ELSE IF sugg.score > Pass1Threshold THEN Select(st, sugg, limit)
         ELSE st

RECURSIVE Pass1(_, _, _, _)
Pass1(sorted, i, st, limit) ==
    IF i > Len(sorted) THEN st
    ELSE Pass1(sorted, i + 1, Pass1Step(st, sorted[i], limit), limit)

\* A mutant of Pass2Step: a URL already selected is not skipped.
Pass2StepNoSeenCheck(st, sugg, limit) ==
    IF st.stopped THEN st
    ELSE IF sugg.score > Pass2Threshold THEN Select(st, sugg, limit)
    ELSE st

\* A mutant of Pass2Step: the second pass accepts with the threshold of the
\* first.
Pass2StepHighThreshold(st, sugg, limit) ==
    IF st.stopped \/ sugg.url \in st.seen_urls THEN st
    ELSE IF sugg.score > Pass1Threshold THEN Select(st, sugg, limit)
    ELSE st

\* A mutant of Pass2Step: the second pass takes every candidate.
Pass2StepNoThreshold(st, sugg, limit) ==
    IF st.stopped \/ sugg.url \in st.seen_urls THEN st
    ELSE Select(st, sugg, limit)

\* One iteration of the second pass (lines 467-476).
Pass2Step(st, sugg, limit) ==
    IF st.stopped \/ sugg.url \in st.seen_urls THEN st
    ELSE IF sugg.score > Pass2Threshold THEN Select(st, sugg, limit)
    ELSE st

RECURSIVE Pass2Loop(_, _, _, _)
Pass2Loop(sorted, i, st, limit) ==
    IF i > Len(sorted) THEN st
    ELSE Pass2Loop(sorted, i + 1, Pass2Step(st, sorted[i], limit), limit)

\* The second pass runs only when the first left slots free (line 466).
Pass2(sorted, st, limit) ==
    IF Len(st.diverse_suggestions) < limit
    THEN Pass2Loop(sorted, 1, [st EXCEPT !.stopped = FALSE], limit)
    ELSE st

\* A mutant of FinalResult: the selection is returned in the order the two
\* passes appended it.
FinalResultUnsorted(diverse, limit) == Slice(diverse, 0, limit)

\* The final sort and slice (lines 479-481).
FinalResult(diverse, limit) == Slice(SortByScoreDesc(diverse), 0, limit)

\* A mutant of StartGenerate: no early return, an empty catalog makes the
\* call fail.
StartGenerateFailsOnEmpty(db, cont) ==
    IF db = <<>>
    THEN [pc |-> "gen_raised", chunks |-> <<>>]
    ELSE [pc |-> "gen_scoring", chunks |-> ExtractTextChunks(cont, DefaultChunkSize)]

\* The entry of generate_suggestions (lines 368-371): the early return for
\* an empty catalog, otherwise the chunking of the content.
StartGenerate(db, cont) ==
    IF db = <<>>
    THEN [pc |-> "gen_done", chunks |-> <<>>]
    ELSE [pc |-> "gen_scoring", chunks |-> ExtractTextChunks(cont, DefaultChunkSize)]

----------------------------------------------------------------------------
(* URLDatabase *)

\* last_updated is 0 for None, otherwise the time of the save.
EmptyData == [urls |-> <<>>, last_updated |-> 0]

\* The file is absent, or holds the JSON text of one object: the members of
\* "urls" in the order written, and "last_updated".
NoFile == [exists |-> FALSE, members |-> <<>>, last_updated |-> 0]

\* json.dump(self.data, f, ...), lines 89-90
JsonDump(d) ==
    [exists |-> TRUE, members |-> d.urls, last_updated |-> d.last_updated]

\* json.load(f): the object's members are inserted in order; a repeated
\* key overwrites the earlier value.
RECURSIVE JsonLoadMembers(_, _, _)
JsonLoadMembers(members, i, d) ==
    IF i > Len(members) THEN d
    ELSE JsonLoadMembers(members, i + 1,
                         DictSet(d, members[i][1], members[i][2]))

\* URLDatabase.load
Load(file) ==
    IF file.exists
    THEN [urls |-> JsonLoadMembers(file.members, 1, <<>>),
          last_updated |-> file.last_updated]
    ELSE EmptyData

\* URLDatabase.save at time `now`: the state [data, db_file] after it.
Save(d, now) ==
    LET stamped == [d EXCEPT !.last_updated = now]
    IN  [data |-> stamped, db_file |-> JsonDump(stamped)]

\* URLDatabase.add_url; `now` is the first of its two readings of the time.
AddUrl(d, url, h1, h2, title, meta_desc, page_type, now) ==
    Save([d EXCEPT !.urls =
              DictSet(@, url, [h1 |-> h1, h2 |-> h2, title |-> title,
                               meta_description |-> meta_desc,
                               page_type |-> page_type,
                               added_date |-> now])],
         now + 1)

\* URLDatabase.get_all_urls
GetAllUrls(d) == Get(d, "urls", <<>>)

\* A mutant of DeleteUrl: the entry is removed but the file is not rewritten.
DeleteUrlUnsaved(d, file, url, now) ==
    IF DictHas(d.urls, url)
    THEN [data |-> [d EXCEPT !.urls = DictDel(@, url)], db_file |-> file]
    ELSE [data |-> d, db_file |-> file]

\* URLDatabase.delete_url
DeleteUrl(d, file, url, now) ==
    IF DictHas(d.urls, url)
    THEN Save([d EXCEPT !.urls = DictDel(@, url)], now)
    ELSE [data |-> d, db_file |-> file]

\* URLDatabase.clear_all
ClearAll(now) == Save(EmptyData, now)

----------------------------------------------------------------------------
(* Bulk import: import_urls_from_file and detect_page_type *)

\* A missing cell is the float NaN; str() of it is 'nan'.
NaN == <<"NaN">>
NanText == <<"n", "a", "n">>
Str(cell) == IF cell = NaN THEN NanText ELSE cell

\* The column names of lines 173-174
UrlCol      == <<"u", "r", "l">>
TitleCol    == <<"t", "i", "t", "l", "e">>
H1Col       == <<"h", "1">>
MetaCol     ==
    <<"m", "e", "t", "a", "_", "d", "e", "s", "c", "r", "i", "p", "t", "i", "o",
      "n">>
H2Col       == <<"h", "2">>
PageTypeCol == <<"p", "a", "g", "e", "_", "t", "y", "p", "e">>
TypeCol     == <<"t", "y", "p", "e">>
CategoryCol == <<"c", "a", "t", "e", "g", "o", "r", "y">>

\* The page types detect_page_type returns
Product     == <<"P", "r", "o", "d", "u", "c", "t">>
Glossary    == <<"G", "l", "o", "s", "s", "a", "r", "y">>
Guide       == <<"G", "u", "i", "d", "e">>
Blog        == <<"B", "l", "o", "g">>
Category    == <<"C", "a", "t", "e", "g", "o", "r", "y">>
LandingPage == <<"L", "a", "n", "d", "i", "n", "g", " ", "P", "a", "g", "e">>
Other       == <<"O", "t", "h", "e", "r">>

required_cols == <<UrlCol, TitleCol, H1Col>>
optional_cols == <<MetaCol, H2Col, PageTypeCol, TypeCol, CategoryCol>>

\* s.split(sep) for a one-character separator: the pieces between the
\* separators, empty pieces included.
SplitOn(s, sep) ==
    LET cuts   == {i \in 1..Len(s) : s[i] = sep}
        starts == SortedSeq({1} \cup {i + 1 : i \in cuts})
        piece(b) ==
            LET ends == {j \in cuts : j >= b}
                e    == IF ends = {} THEN Len(s)
                        ELSE (CHOOSE j \in ends : \A k \in ends : j <= k) - 1
            IN  IF e < b THEN <<>> ELSE SubSeq(s, b, e)
    IN  [k \in 1..Len(starts) |-> piece(starts[k])]

\* [h.strip() for h in pieces if h.strip()]
StripNonEmpty(pieces) ==
    SelectSeq([k \in 1..Len(pieces) |-> Strip(pieces[k])],
              LAMBDA h : h # <<>>)

\* lines 204-212
ParseH2(h2_raw) ==
    IF h2_raw # <<>> /\ h2_raw # NanText
    THEN IF Contains(h2_raw, <<";">>)
         THEN StripNonEmpty(SplitOn(h2_raw, ";"))
         ELSE StripNonEmpty(SplitOn(h2_raw, ","))
    ELSE <<>>

ProductWords ==
    {<<"p", "r", "o", "d", "u", "c", "t">>,
     <<"/", "p", "r", "o", "d", "u", "c", "t", "/">>,
     <<"/", "s", "h", "o", "p", "/">>, <<"b", "u", "y">>,
     <<"p", "r", "i", "c", "e">>, <<"/", "i", "t", "e", "m", "/">>}
GlossaryWords ==
    {<<"g", "l", "o", "s", "s", "a", "r", "y">>,
     <<"d", "e", "f", "i", "n", "i", "t", "i", "o", "n">>,
     <<"w", "h", "a", "t", " ", "i", "s">>,
     <<"m", "e", "a", "n", "i", "n", "g", " ", "o", "f">>,
     <<"/", "g", "l", "o", "s", "s", "a", "r", "y", "/">>,
     <<"/", "d", "e", "f", "i", "n", "e", "/">>}
GuideWords ==
    {<<"g", "u", "i", "d", "e">>, <<"t", "u", "t", "o", "r", "i", "a", "l">>,
     <<"h", "o", "w", " ", "t", "o">>,
     <<"s", "t", "e", "p", " ", "b", "y", " ", "s", "t", "e", "p">>,
     <<"c", "o", "m", "p", "l", "e", "t", "e", " ", "g", "u", "i", "d", "e">>,
     <<"u", "l", "t", "i", "m", "a", "t", "e", " ", "g", "u", "i", "d", "e">>}
BlogWords ==
    {<<"/", "b", "l", "o", "g", "/">>, <<"a", "r", "t", "i", "c", "l", "e">>,
     <<"/", "p", "o", "s", "t", "/">>, <<"/", "n", "e", "w", "s", "/">>,
     <<"t", "i", "p", "s">>}
CategoryWords ==
    {CategoryCol,
     <<"c", "a", "t", "e", "g", "o", "r", "i", "e", "s">>,
     <<"/", "c", "a", "t", "/">>,
     <<"c", "o", "l", "l", "e", "c", "t", "i", "o", "n">>}
LandingWords ==
    {<<"l", "a", "n", "d", "i", "n", "g">>,
     <<"s", "e", "r", "v", "i", "c", "e", "s">>,
     <<"s", "o", "l", "u", "t", "i", "o", "n", "s">>}

\* A mutant of detect_page_type: the blog keywords are tried before the
\* guide keywords.
detect_page_type_blog_first(url, title, h1) ==
    LET combined == Lower(url) \o <<" ">> \o Lower(title) \o <<" ">>
                    \o Lower(h1)
        any(words) == \E word \in words : Contains(combined, word)
    IN  IF any(ProductWords) THEN Product
        ELSE IF any(GlossaryWords) THEN Glossary
        ELSE IF any(BlogWords) THEN Blog
        ELSE IF any(GuideWords) THEN Guide
        ELSE IF any(CategoryWords) THEN Category
        ELSE IF any(LandingWords) THEN LandingPage
        ELSE Other

\* detect_page_type
detect_page_type(url, title, h1) ==
    LET combined == Lower(url) \o <<" ">> \o Lower(title) \o <<" ">>
                    \o Lower(h1)
        any(words) == \E word \in words : Contains(combined, word)
    IN  IF any(ProductWords) THEN Product
        ELSE IF any(GlossaryWords) THEN Glossary
        ELSE IF any(GuideWords) THEN Guide
        ELSE IF any(BlogWords) THEN Blog
        ELSE IF any(CategoryWords) THEN Category
        ELSE IF any(LandingWords) THEN LandingPage
        ELSE Other

\* A column label that is a number, as read_excel gives for a numeric header
\* cell (read_csv gives strings only).
IntLabel == <<"int">>

\* Index.str of line 177 raises AttributeError ("Can only use .str accessor
\* with string values") when the labels are all numbers; an index of
\* strings, an empty index and an index of strings and numbers have it.
StrAccessorRaises(columns) ==
    columns # <<>> /\ \A i \in 1..Len(columns) : columns[i] = IntLabel

\* df.columns.str.lower().str.strip(), line 177; the string methods give NaN
\* for a label that is not a string.
NormColumns(columns) ==
    [i \in 1..Len(columns) |->
        IF columns[i] = IntLabel THEN NaN ELSE Strip(Lower(columns[i]))]

Range(f) == {f[i] : i \in DOMAIN f}

\* lines 180-182
MissingCols(cols) == SelectSeq(required_cols, LAMBDA c : c \notin Range(cols))

\* One row of the frame after lines 185-187: the cells of the file's columns,
\* then '' under every optional column the file does not have.
Row(cols, cells) ==
    [i \in 1..Len(cols) |-> <<cols[i], cells[i]>>]
    \o LET absent == SelectSeq(optional_cols, LAMBDA c : c \notin Range(cols))
       IN  [i \in 1..Len(absent) |-> <<absent[i], <<>>>>]

\* row.get(key, default)
RowGet(row, key, default) ==
    IF DictHas(row, key) THEN DictGet(row, key) ELSE default

MissingField == "Missing required field (URL, Title, or H1)"
SaveFailed   == "OSError"

\* f"Row {idx + 2}: ...": idx + 2 is a number when the index label is an
\* integer and raises TypeError when the label is a string.
RowMessage(idx, text) ==
    IF idx.int THEN [raised |-> FALSE, message |-> [row |-> idx.n + 2,
                                                   text |-> text]]
    ELSE [raised |-> TRUE, message |-> <<>>]

\* The body of the loop of lines 192-230 for one row: st is the state
\* [data, db_file, imported, errors, raised] before it, the result the state
\* after it.  save_ok tells whether open() in save() succeeds; an exception
\* raised while the handler of line 229 formats its message leaves the
\* function.
ImportOneRow(st, row, idx, save_ok, now) ==
    LET url      == Strip(Str(DictGet(row, UrlCol)))
        title    == Strip(Str(DictGet(row, TitleCol)))
        h1       == Strip(Str(DictGet(row, H1Col)))
        h2_list  == ParseH2(Str(RowGet(row, H2Col, <<>>)))
        meta0    == Strip(Str(RowGet(row, MetaCol, <<>>)))
        meta_desc == IF meta0 = NanText THEN <<>> ELSE meta0
        pt0      == Strip(Str(RowGet(row, PageTypeCol,
                                     RowGet(row, TypeCol,
                                            RowGet(row, CategoryCol, <<>>)))))
        page_type == IF pt0 = NanText \/ pt0 = <<>>
                     THEN detect_page_type(url, title, h1) ELSE pt0
        added    == AddUrl(st.data, url, h1, h2_list, title, meta_desc,
                           page_type, now)
        fail(s, text) ==
            \* the message is built in the try block for a missing field
            \* and in the except block otherwise; when building it raises
            \* in the try block the except block builds its own and raises
            \* again
            LET m == RowMessage(idx, text)
            IN  IF m.raised THEN [s EXCEPT !.raised = TRUE]
                ELSE [s EXCEPT !.errors = Append(@, m.message)]
    IN  IF url = <<>> \/ url = NanText \/ title = <<>> \/ title = NanText
           \/ h1 = <<>> \/ h1 = NanText
        THEN fail(st, MissingField)
        ELSE IF save_ok
             THEN [st EXCEPT !.data = added.data, !.db_file = added.db_file,
                             !.imported = @ + 1]
             ELSE fail([st EXCEPT !.data = added.data], SaveFailed)

----------------------------------------------------------------------------
(* main: the preview of the content with the accepted links, lines 809-822 *)

LinkOpen ==
    <<"<", "a", " ", "h", "r", "e", "f", "=", "\"">>
LinkStyle ==
    <<"\"", " ", "s", "t", "y", "l", "e", "=", "\"", "c", "o", "l", "o", "r",
      ":", " ", "#", "2", "E", "8", "6", "A", "B", ";", " ", "f", "o", "n",
      "t", "-", "w", "e", "i", "g", "h", "t", ":", " ", "b", "o", "l", "d",
      ";", "\"", ">">>
LinkClose == <<"<", "/", "a", ">">>

\* link_html of line 821
LinkHtml(url, anchor_text) ==
    LinkOpen \o url \o LinkStyle \o anchor_text \o LinkClose

\* [s for s in suggestions if s['url'] in accepted_links], lines 815-816
AcceptedSuggestions(suggs, accepted) ==
    SelectSeq(suggs,
              LAMBDA s : \E i \in 1..Len(accepted) : accepted[i] = s.url)

\* The characters the links that end at or before offset pos added to the
\* text: an offset of final_content minus this is an offset of the original.
RECURSIVE AddedBefore(_, _, _)
AddedBefore(spans, pos, i) ==
    IF i > Len(spans) THEN 0
    ELSE (IF spans[i].end <= pos THEN spans[i].delta ELSE 0)
         + AddedBefore(spans, pos, i + 1)

\* One turn of the loop of lines 818-822 on st = [text, spans, landings]:
\* text is final_content, spans the places (0-based, end excluded) of the
\* links inserted so far, landings what each replace did.
\* str.replace(old, new, 1) replaces the first occurrence of old, which for
\* an empty old is the empty string at offset 0.
ReplaceStep(st, suggestion) ==
    LET old   == suggestion.anchor_text
        new   == LinkHtml(suggestion.url, old)
        pos   == Find(st.text, old, 0)
        delta == Len(new) - Len(old)
        moved == [i \in 1..Len(st.spans) |->
                    LET sp == st.spans[i]
                    IN  [first |-> IF sp.first >= pos + Len(old)
                                   THEN sp.first + delta ELSE sp.first,
                         end   |-> IF sp.end <= pos
                                   THEN sp.end ELSE sp.end + delta,
                         delta |-> sp.delta]]
    IN  IF pos = -1
        THEN [st EXCEPT !.landings =
                 Append(@, [url |-> suggestion.url, found |-> FALSE,
                            inside |-> FALSE, original_pos |-> -1])]
        ELSE [text  |-> Slice(st.text, 0, pos) \o new
                        \o Slice(st.text, pos + Len(old), Len(st.text)),
              spans |-> Append(moved, [first |-> pos, end |-> pos + Len(new),
                                       delta |-> delta]),
              landings |->
                  Append(st.landings,
                         [url |-> suggestion.url, found |-> TRUE,
                          inside |-> \E i \in 1..Len(st.spans) :
                                        /\ pos < st.spans[i].end
                                        /\ pos + Len(old) > st.spans[i].first,
                          original_pos |->
                              pos - AddedBefore(st.spans, pos, 1)])]

RECURSIVE ReplaceLoop(_, _, _)
ReplaceLoop(st, accepted_suggestions, i) ==
    IF i > Len(accepted_suggestions) THEN st
    ELSE ReplaceLoop(ReplaceStep(st, accepted_suggestions[i]),
                     accepted_suggestions, i + 1)

\* lines 814-822
ContentWithLinks(current_content, suggs, accepted) ==
    ReplaceLoop([text |-> current_content, spans |-> <<>>, landings |-> <<>>],
                AcceptedSuggestions(suggs, accepted), 1)

----------------------------------------------------------------------------
(* Specification SpecChunk: extract_text_chunks applied to every content    *)
(* over a small alphabet, for every chunk_size in 1..MaxChunkSize.          *)

ChunkAlphabet == {"a", "b", " ", ".", "!"}

ChunkIdle  == content = <<>> /\ chunk_size = 0 /\ chunks = <<>>
AnchorIdle == chunk = <<>> /\ url_data = <<>> /\ anchor = <<>>
DbIdle     == data = <<>> /\ db_file = <<>> /\ clock = 0 /\ last_call = <<>>
ImportIdle == df = <<>> /\ row_i = 0 /\ imported = 0 /\ errors = <<>>
ApplyIdle  ==
    /\ accepted_links = <<>> /\ rejected_links = <<>>
    /\ final_content = <<>> /\ landings = <<>>
GenIdle    ==
    /\ url_database = <<>> /\ max_suggestions = 0 /\ tfidf = <<>> /\ ci = 0
    /\ scored = <<>> /\ all_suggestions = <<>> /\ seen_urls = {}
    /\ diverse_suggestions = <<>> /\ pass1_urls = {} /\ suggestions = <<>>
    /\ calls = 0 /\ first_result = <<>>

InitChunk ==
    /\ pc = "chunk_call"
    /\ content \in StringsUpTo(ChunkAlphabet, MaxContentLen)
    /\ chunk_size \in 1..MaxChunkSize
    /\ chunks = <<>>
    /\ AnchorIdle
    /\ DbIdle
    /\ ImportIdle
    /\ ApplyIdle
    /\ GenIdle

ExtractTextChunksCall ==
    /\ pc = "chunk_call"
    /\ chunks' = ExtractTextChunks(content, chunk_size)
    /\ pc' = "chunk_done"
    /\ UNCHANGED <<importVars, applyVars,
                   content, chunk_size, anchorVars, dbVars, genVars>>

NextChunk == ExtractTextChunksCall

SpecChunk == InitChunk /\ [][NextChunk]_vars

----------------------------------------------------------------------------
(* Specification SpecAnchor: suggest_anchor_text applied to every chunk and *)
(* every destination record over small alphabets.                           *)

AnchorAlphabet  == {"a", "A", "b", "U+0130"}
HeadingAlphabet == {"A", "b"}

H1Texts    == StringsUpTo(HeadingAlphabet, MaxHeadingLen)
TitleTexts == {<<>>, <<"A">>, <<"b", "A">>}
H2Texts    == {<<>>, <<"A">>, <<"A", "b">>}

\* A destination record is a dict; the keys h1, title and h2 may be missing.
AnchorDestinations ==
    {[k \in keys |-> IF k = "h1" THEN x ELSE IF k = "title" THEN y ELSE z] :
         keys \in SUBSET {"h1", "title", "h2"},
         x \in H1Texts, y \in TitleTexts, z \in StringsUpTo(H2Texts, MaxH2)}

InitAnchor ==
    /\ pc = "anchor_call"
    /\ chunk \in StringsUpTo(AnchorAlphabet, MaxChunkLen)
    /\ url_data \in AnchorDestinations
    /\ anchor = <<>>
    /\ ChunkIdle
    /\ DbIdle
    /\ ImportIdle
    /\ ApplyIdle
    /\ GenIdle

SuggestAnchorTextCall ==
    /\ pc = "anchor_call"
    /\ anchor' = SuggestAnchorText(chunk, url_data)
    /\ pc' = "anchor_done"
    /\ UNCHANGED <<importVars, applyVars,
                   chunk, url_data, chunkVars, dbVars, genVars>>

NextAnchor == SuggestAnchorTextCall

SpecAnchor == InitAnchor /\ [][NextAnchor]_vars

----------------------------------------------------------------------------
(* Specification Spec: generate_suggestions called, once or repeatedly with *)
(* the same arguments, on a content, a catalog and a limit.                 *)

RECURSIVE Rep(_, _)
Rep(s, n) == IF n = 0 THEN <<>> ELSE s \o Rep(s, n - 1)

Abab == <<"a", "b", "a", "b">>
Cdcd == <<"c", "d", "c", "d">>

\* Sentences of 99 characters: two of them do not fit one chunk of 200.
Sentence1 == Rep(Abab \o <<" ">>, 20)
Sentence2 == Rep(Cdcd \o <<" ">>, 20)
Sentence3 == Rep(<<"x", " ">>, 50)         \* no token of two characters

\* Contents of blanks and sentence punctuation only.
BlankContents == {<<>>, <<" ">>, <<".">>, <<" ", "!", "?", " ">>}

GenContents ==
    BlankContents \cup
    {<<"A", "b", "a", "b", " ", "c", "d", ".", " ">> \o Cdcd,
     Sentence1 \o <<".", " ">> \o Sentence2,
     Sentence3 \o <<"!", " ">> \o Sentence1}

Destination(title, h1, page_type) ==
    [h1 |-> h1, h2 |-> <<>>, title |-> title, meta_description |-> <<>>,
     page_type |-> page_type, added_date |-> 0]

Pool ==
    << <<"/blog1", Destination(<<"A", "b", "a", "b">>, Abab, "Blog")>>,
       <<"/blog2", Destination(Cdcd, <<"c", "d">>, "Blog")>>,
       <<"/blog3", Destination(Abab \o <<" ">> \o Cdcd, <<>>, "Blog")>>,
       <<"/prod1", Destination(Cdcd, <<"C", "d", "c", "d">>, "Product")>>,
       <<"/prod2", Destination(Abab, Abab \o <<" ">> \o Cdcd, "Product")>>,
       <<"/none",  Destination(<<>>, <<>>, "Other")>> >>

RECURSIVE PickFrom(_, _, _)
PickFrom(seq, i, S) ==
    IF i > Len(seq) THEN <<>>
    ELSE (IF i \in S THEN <<seq[i]>> ELSE <<>>) \o PickFrom(seq, i + 1, S)

\* The catalogs: the entries of Pool at up to MaxUrls places, in Pool's
\* order, and the first MaxUrls + 1 entries of Pool.
Catalogs ==
    {PickFrom(Pool, 1, S) :
         S \in {T \in SUBSET (1..Len(Pool)) : Cardinality(T) <= MaxUrls}}
    \cup {SubSeq(Pool, 1, Min(MaxUrls + 1, Len(Pool)))}

Init ==
    /\ pc = "gen_call"
    /\ content \in GenContents
    /\ chunk_size = DefaultChunkSize
    /\ chunks = <<>>
    /\ url_database \in Catalogs
    /\ max_suggestions \in 0..MaxLimit
    /\ tfidf = [k \in {} |-> 0]
    /\ ci = 0
    /\ scored = <<>>
    /\ all_suggestions = <<>>
    /\ seen_urls = {}
    /\ diverse_suggestions = <<>>
    /\ pass1_urls = {}
    /\ suggestions = <<>>
    /\ calls = 1
    /\ first_result = <<>>
    /\ AnchorIdle
    /\ DbIdle
    /\ ImportIdle
    /\ ApplyIdle

\* The value returned is `result`; the first call's value is remembered.
Return(result) ==
    /\ suggestions' = result
    /\ first_result' = IF calls = 1 THEN result ELSE first_result
    /\ pc' = "gen_done"

\* Lines 368-387.
GenStart ==
    /\ pc = "gen_call"
    /\ LET start == StartGenerate(url_database, content) IN
       IF start.pc = "gen_done"
       THEN /\ Return(<<>>)
            /\ UNCHANGED <<chunks, ci>>
       ELSE /\ pc' = start.pc
            /\ chunks' = start.chunks
            /\ ci' = 1
            /\ UNCHANGED <<suggestions, first_result>>
    /\ UNCHANGED <<importVars, applyVars,
                   content, chunk_size, anchorVars, dbVars, url_database,
                   max_suggestions, tfidf, scored, all_suggestions, seen_urls,
                   diverse_suggestions, pass1_urls, calls>>

\* What the vectorizer may give for a pair of texts: what it gave before for
\* the same pair, otherwise any outcome the texts allow.
Allowed(content_text, url_text) ==
    IF <<content_text, url_text>> \in DOMAIN tfidf
    THEN {tfidf[<<content_text, url_text>>]}
    ELSE TfidfOutcomes(content_text, url_text)

\* The ways to pick one outcome per destination from the sets allowed[i..].
RECURSIVE SimChoices(_, _)
SimChoices(allowed, i) ==
    IF i > Len(allowed) THEN {<<>>}
    ELSE {<<x>> \o rest : x \in allowed[i], rest \in SimChoices(allowed, i + 1)}

\* The texts of the destinations of a catalog, in catalog order (line 378).
UrlTexts(db) == <<>> \o [i \in 1..Len(db) |-> UrlText(db[i][2])]

\* The scores of one chunk against every destination, boost applied
\* (lines 395-412), and whether a scoring raised.
ChunkScores(db, overlap, sims) ==
    LET got == [i \in 1..Len(db) |->
                   CalculateRelevanceScore(sims[i], overlap[i])]
    IN  [raised |-> \E i \in 1..Len(db) : got[i].raised,
         scores |-> [i \in 1..Len(db) |->
                        [url   |-> db[i][1],
                         raw   |-> got[i].value,
                         score |-> Boost(PageType(db[i][2]), got[i].value)]]]

\* The chunk is scored with the outcomes `sims`: the candidates are emitted,
\* or the exception of a scoring leaves generate_suggestions.
Scored(ch, text, sims, r) ==
    IF r.raised
    THEN /\ pc' = "gen_raised"
         /\ UNCHANGED <<tfidf, ci, scored, all_suggestions>>
    ELSE /\ pc' = pc
         /\ tfidf' =
              [k \in DOMAIN tfidf \cup {<<ch.text, text[i]>> : i \in 1..Len(text)}
                 |-> IF k \in DOMAIN tfidf THEN tfidf[k]
                     ELSE sims[CHOOSE i \in 1..Len(text) :
                                   k = <<ch.text, text[i]>>]]
         /\ ci' = ci + 1
         /\ scored' = scored \o
              [i \in 1..Len(text) |->
                  [chunk |-> ci, url |-> r.scores[i].url, sim |-> sims[i],
                   raw |-> r.scores[i].raw, score |-> r.scores[i].score]]
         /\ all_suggestions' = all_suggestions \o
              ChunkCandidates(ch, url_database, r.scores)

ScoreChunkWith(ch, text, overlap, choices) ==
    \E sims \in choices :
      /\ \A i, j \in 1..Len(text) : text[i] = text[j] => sims[i] = sims[j]
      /\ Scored(ch, text, sims, ChunkScores(url_database, overlap, sims))

\* One iteration of the loop over chunks (lines 390-431).
ScoreChunk ==
    /\ pc = "gen_scoring"
    /\ ci <= Len(chunks)
    /\ ScoreChunkWith(chunks[ci], UrlTexts(url_database),
                      <<>> \o [i \in 1..Len(url_database) |->
                                  KeywordOverlap(chunks[ci].text,
                                                 UrlText(url_database[i][2]))],
                      SimChoices([i \in 1..Len(url_database) |->
                                     Allowed(chunks[ci].text,
                                             UrlText(url_database[i][2]))], 1))
    /\ UNCHANGED <<importVars, applyVars,
                   content, chunk_size, chunks, anchorVars, dbVars,
                   url_database, max_suggestions, seen_urls,
                   diverse_suggestions, pass1_urls, suggestions, calls,
                   first_result>>

\* The sort of all candidates and the first pass (lines 434-463).
SelectPass1 ==
    /\ pc = "gen_scoring"
    /\ ci > Len(chunks)
    /\ LET sorted == SortByScoreDesc(all_suggestions)
           st     == Pass1(sorted, 1, SelectionStart, max_suggestions)
       IN  /\ all_suggestions' = sorted
           /\ seen_urls' = st.seen_urls
           /\ diverse_suggestions' = st.diverse_suggestions
           /\ pass1_urls' = st.seen_urls
    /\ pc' = "gen_pass2"
    /\ UNCHANGED <<importVars, applyVars,
                   chunkVars, anchorVars, dbVars, url_database,
                   max_suggestions, tfidf, ci, scored, suggestions, calls,
                   first_result>>

\* The second pass (lines 465-476).
SelectPass2 ==
    /\ pc = "gen_pass2"
    /\ LET st == Pass2(all_suggestions,
                       [seen_urls |-> seen_urls,
                        diverse_suggestions |-> diverse_suggestions,
                        page_type_counts |-> [t \in {} |-> 0],
                        stopped |-> FALSE],
                       max_suggestions)
       IN  /\ seen_urls' = st.seen_urls
           /\ diverse_suggestions' = st.diverse_suggestions
    /\ pc' = "gen_final"
    /\ UNCHANGED <<importVars, applyVars,
                   chunkVars, anchorVars, dbVars, url_database,
                   max_suggestions, tfidf, ci, scored, all_suggestions,
                   pass1_urls, suggestions, calls, first_result>>

\* The final sort and the return (lines 478-481).
Finish ==
    /\ pc = "gen_final"
    /\ Return(FinalResult(diverse_suggestions, max_suggestions))
    /\ UNCHANGED <<importVars, applyVars,
                   chunkVars, anchorVars, dbVars, url_database,
                   max_suggestions, tfidf, ci, scored, all_suggestions,
                   seen_urls, diverse_suggestions, pass1_urls, calls>>

\* generate_suggestions is called again with the same arguments; only the
\* LinkSuggester object lives on.
CallAgain ==
    /\ pc = "gen_done"
    /\ calls < MaxCalls
    /\ pc' = "gen_call"
    /\ calls' = calls + 1
    /\ chunks' = <<>>
    /\ ci' = 0
    /\ scored' = <<>>
    /\ all_suggestions' = <<>>
    /\ seen_urls' = {}
    /\ diverse_suggestions' = <<>>
    /\ pass1_urls' = {}
    /\ suggestions' = <<>>
    /\ UNCHANGED <<importVars, applyVars,
                   content, chunk_size, anchorVars, dbVars, url_database,
                   max_suggestions, tfidf, first_result>>

Next == GenStart \/ ScoreChunk \/ SelectPass1 \/ SelectPass2 \/ Finish

Spec == Init /\ [][Next]_vars

----------------------------------------------------------------------------
(* Specification SpecTwice: as Spec, and the same LinkSuggester is asked    *)
(* again, up to MaxCalls times, with the arguments of the first call.       *)

InitTwice ==
    /\ Init
    /\ content \notin BlankContents
    /\ max_suggestions \in {1, MaxLimit}

NextTwice == Next \/ CallAgain

SpecTwice == InitTwice /\ [][NextTwice]_vars

----------------------------------------------------------------------------
(* Properties of extract_text_chunks, checked under SpecChunk *)

\* The non-empty trimmed sentences of a string, in order.
TrimmedSentences(s) ==
    LET pieces   == SplitSentences(s)
        stripped == [i \in 1..Len(pieces) |-> Strip(pieces[i])]
    IN  SelectSeq(stripped, LAMBDA x : x # <<>>)

\* The sentences held by the chunks i.. of cs, read in order.
RECURSIVE ChunkSentences(_, _)
ChunkSentences(cs, i) ==
    IF i > Len(cs) THEN <<>>
    ELSE TrimmedSentences(cs[i].text) \o ChunkSentences(cs, i + 1)

HasNoPunct(s) == \A i \in 1..Len(s) : s[i] \notin Punct

\* C6: the chunks, read in order, hold exactly the non-empty trimmed
\* sentences of the content, each once and in the original order, and no
\* chunk has an empty text.
C6_ChunksHoldSentences ==
    pc = "chunk_done" =>
        /\ \A i \in 1..Len(chunks) : chunks[i].text # <<>>
        /\ ChunkSentences(chunks, 1) = TrimmedSentences(content)

\* Several chunks, one of them made of two sentences.
C6_Witness ==
    /\ pc = "chunk_done"
    /\ Len(chunks) >= 2
    /\ \E i \in 1..Len(chunks) : Len(TrimmedSentences(chunks[i].text)) >= 2

\* C7 as stated: content without sentence punctuation, non-empty after
\* trimming, yields exactly one chunk whose text is the trimmed content.
C7_Original ==
    (pc = "chunk_done" /\ HasNoPunct(content) /\ Strip(content) # <<>>) =>
        /\ Len(chunks) = 1
        /\ chunks[1].text = Strip(content)

\* C7 amended: such content yields exactly one chunk whose text is the
\* trimmed content followed by one full stop.
C7_SingleChunkWithStop ==
    (pc = "chunk_done" /\ HasNoPunct(content) /\ Strip(content) # <<>>) =>
        /\ Len(chunks) = 1
        /\ chunks[1].text = Strip(content) \o <<".">>

\* Content with inner and outer blanks and no punctuation, not shorter than
\* chunk_size, has been chunked.
C7_Witness ==
    /\ pc = "chunk_done"
    /\ HasNoPunct(content)
    /\ Strip(content) # content
    /\ Len(Strip(content)) >= 3
    /\ Len(Strip(content)) >= chunk_size
    /\ Len(chunks) = 1

----------------------------------------------------------------------------
(* Properties of suggest_anchor_text, checked under SpecAnchor *)

\* C5: the anchor is "Learn more", the destination's title or h1, or a
\* string that occurs in the chunk when both are compared in lower case.
C5_AnchorFromChunkOrHeading ==
    pc = "anchor_done" =>
        \/ anchor \in {LearnMore, Get(url_data, "title", LearnMore),
                       Get(url_data, "h1", LearnMore)}
        \/ Contains(Lower(chunk), Lower(anchor))

\* A sub-heading was found in the chunk in another case and the anchor is
\* the chunk's own spelling of it.
C5_Witness ==
    /\ pc = "anchor_done"
    /\ anchor # <<>>
    /\ anchor \notin {LearnMore, Get(url_data, "title", LearnMore),
                      Get(url_data, "h1", LearnMore)}
    /\ \E i \in 1..Len(Get(url_data, "h2", <<>>)) :
           /\ url_data["h2"][i] # anchor
           /\ Lower(url_data["h2"][i]) = Lower(anchor)

----------------------------------------------------------------------------
(* Specification SpecDb: a URLDatabase over a file that is absent or was    *)
(* written by an earlier process, under any sequence of add_url,            *)
(* delete_url, clear_all and restarts.                                      *)

DbUrls   == {"/a", "/b"}
DbTitles == {"T1", "T2"}

InitDb ==
    /\ pc = "db"
    /\ \E file \in {NoFile,
                    JsonDump([urls |-> <<>>, last_updated |-> 0]),
                    JsonDump(AddUrl(EmptyData, "/a", "H", <<>>, "T1", "",
                                    "Other", 0).data)} :
           /\ db_file = file
           /\ data = Load(file)
    /\ clock = 2
    /\ last_call = [name |-> "__init__", url |-> "", data |-> EmptyData,
                    db_file |-> NoFile]
    /\ ChunkIdle
    /\ AnchorIdle
    /\ GenIdle
    /\ ImportIdle
    /\ ApplyIdle

Called(name, url) ==
    [name |-> name, url |-> url, data |-> data, db_file |-> db_file]

add_url ==
    /\ pc = "db"
    /\ clock + 2 <= MaxClock
    /\ \E url \in DbUrls, title \in DbTitles :
           LET after == AddUrl(data, url, "H", <<>>, title, "", "Other", clock)
           IN  /\ data' = after.data
               /\ db_file' = after.db_file
               /\ last_call' = Called("add_url", url)
    /\ clock' = clock + 2
    /\ UNCHANGED <<importVars, applyVars,
                   pc, chunkVars, anchorVars, genVars>>

delete_url ==
    /\ pc = "db"
    /\ clock + 1 <= MaxClock
    /\ \E url \in DbUrls :
           LET after == DeleteUrl(data, db_file, url, clock)
           IN  /\ data' = after.data
               /\ db_file' = after.db_file
               /\ last_call' = Called("delete_url", url)
               /\ clock' = IF DictHas(data.urls, url) THEN clock + 1 ELSE clock
    /\ UNCHANGED <<importVars, applyVars,
                   pc, chunkVars, anchorVars, genVars>>

clear_all ==
    /\ pc = "db"
    /\ clock + 1 <= MaxClock
    /\ LET after == ClearAll(clock)
       IN  /\ data' = after.data
           /\ db_file' = after.db_file
    /\ last_call' = Called("clear_all", "")
    /\ clock' = clock + 1
    /\ UNCHANGED <<importVars, applyVars,
                   pc, chunkVars, anchorVars, genVars>>

\* A new process: URLDatabase.__init__ loads the file again.
Restart ==
    /\ pc = "db"
    /\ data' = Load(db_file)
    /\ last_call' = Called("__init__", "")
    /\ UNCHANGED <<importVars, applyVars,
                   pc, db_file, clock, chunkVars, anchorVars, genVars>>

NextDb == add_url \/ delete_url \/ clear_all \/ Restart

SpecDb == InitDb /\ [][NextDb]_vars

----------------------------------------------------------------------------
(* Properties of URLDatabase, checked under SpecDb *)

----------------------------------------------------------------------------
(* Properties of generate_suggestions, checked under Spec and SpecTwice *)

IsBlank(s) == \A i \in 1..Len(s) : s[i] \in (Whitespace \cup Punct)

\* ceil(0.5 * L) and ceil(0.4 * L)
CeilHalf(L)       == (L + 1) \div 2
CeilTwoFifths(L)  == (2 * L + 4) \div 5

\* The number of entries of page type t in a list of suggestions, among
\* those whose URL is in `urls`.
CountOfType(list, t, urls) ==
    Cardinality({i \in 1..Len(list) :
                    list[i].page_type = t /\ list[i].url \in urls})

UrlsOf(list) == {list[i].url : i \in 1..Len(list)}
TypesOf(list) == {list[i].page_type : i \in 1..Len(list)}

\* C1: at most max_suggestions suggestions are returned, and no two of them
\* have the same URL.
C1_AtMostLimitDistinctUrls ==
    pc = "gen_done" =>
        /\ Len(suggestions) <= max_suggestions
        /\ \A i, j \in 1..Len(suggestions) :
               i # j => suggestions[i].url # suggestions[j].url

\* The limit is reached although more candidates, two of them for one URL,
\* were emitted.
C1_Witness ==
    /\ pc = "gen_done"
    /\ max_suggestions >= 2
    /\ Len(suggestions) = max_suggestions
    /\ Len(all_suggestions) > max_suggestions
    /\ \E i, j \in 1..Len(all_suggestions) :
           i # j /\ all_suggestions[i].url = all_suggestions[j].url

\* C2 as stated: in the returned list no page type has more than
\* ceil(0.5 * L) suggestions and Blog has no more than ceil(0.4 * L).
C2_Original ==
    pc = "gen_done" =>
        /\ \A t \in TypesOf(suggestions) :
               CountOfType(suggestions, t, UrlsOf(suggestions))
                   <= CeilHalf(max_suggestions)
        /\ CountOfType(suggestions, "Blog", UrlsOf(suggestions))
               <= CeilTwoFifths(max_suggestions)

\* C2 amended: in the returned list, among the suggestions selected by the
\* first pass no page type has more than ceil(0.5 * L) and Blog has no more
\* than ceil(0.4 * L); the suggestions added by the second pass are exempt.
C2_Pass1WithinQuota ==
    pc = "gen_done" =>
        /\ \A t \in TypesOf(suggestions) :
               CountOfType(suggestions, t, pass1_urls)
                   <= CeilHalf(max_suggestions)
        /\ CountOfType(suggestions, "Blog", pass1_urls)
               <= CeilTwoFifths(max_suggestions)

\* The first pass filled the Blog quota and turned a Blog destination down,
\* and the second pass added it.
C2_Witness ==
    /\ pc = "gen_done"
    /\ max_suggestions >= 2
    /\ CountOfType(suggestions, "Blog", pass1_urls)
           = CeilTwoFifths(max_suggestions)
    /\ \E i \in 1..Len(suggestions) :
           /\ suggestions[i].page_type = "Blog"
           /\ suggestions[i].url \notin pass1_urls
           /\ suggestions[i].score > Pass1Threshold

C4_EmptyCatalogEmptyResult ==
    url_database = <<>> =>
        /\ pc # "gen_raised"
        /\ pc = "gen_done" => suggestions = <<>>

\* The call has returned for an empty catalog and a content of sentences.
C4_Witness ==
    /\ pc = "gen_done"
    /\ url_database = <<>>
    /\ ~IsBlank(content)

\* C8: for a content of blanks and sentence punctuation only there is no
\* chunk, the call does not raise and returns the empty list.
C8_BlankContentNoSuggestions ==
    IsBlank(content) =>
        /\ pc # "gen_raised"
        /\ chunks = <<>>
        /\ pc = "gen_done" => suggestions = <<>>

\* The call has returned for a catalog of three destinations and a content
\* of blanks and punctuation.
C8_Witness ==
    /\ pc = "gen_done"
    /\ IsBlank(content)
    /\ Len(content) >= 3
    /\ Len(url_database) = 3

\* The candidates emitted for the pair a `scored` entry stands for.
EmittedFor(list, e) ==
    {i \in 1..Len(list) :
        /\ list[i].url = e.url
        /\ list[i].position = chunks[e.chunk].position
        /\ list[i].context =
               Slice(chunks[e.chunk].text, 0, 150) \o <<".", ".", ".">>}

\* C9: a failing scoring of one pair does not make the call raise; the pair
\* has score 0, is not emitted and not returned; every pair of the call is
\* scored, and every other pair that scores above 0.20 among at most three
\* destinations is emitted with its score.
C9_ScoringFailureContained ==
    /\ pc # "gen_raised"
    /\ \A k \in 1..Len(scored) :
           IF scored[k].sim = SimFail
           THEN /\ scored[k].score = 0
                /\ EmittedFor(all_suggestions, scored[k]) = {}
                /\ EmittedFor(suggestions, scored[k]) = {}
           ELSE (scored[k].score > EmitThreshold /\ Len(url_database) <= 3)
                => \E i \in EmittedFor(all_suggestions, scored[k]) :
                       all_suggestions[i].score = scored[k].score
    /\ pc \in {"gen_pass2", "gen_final", "gen_done"} =>
           \A c \in 1..Len(chunks), u \in 1..Len(url_database) :
               \E k \in 1..Len(scored) :
                   scored[k].chunk = c /\ scored[k].url = url_database[u][1]

\* A scoring failed for the first chunk and the call returned a suggestion
\* found for the second chunk.
C9_Witness ==
    /\ pc = "gen_done"
    /\ \E k \in 1..Len(scored) : scored[k].sim = SimFail /\ scored[k].chunk = 1
    /\ \E i \in 1..Len(suggestions) :
           suggestions[i].position = chunks[2].position

----------------------------------------------------------------------------
(* Specification SpecImport: import_urls_from_file applied to the frames    *)
(* pandas can return for a small file: the header as typed, up to MaxRows   *)
(* rows, and either the default integer index or, when the data lines have  *)
(* one field more than the header, the first field of each line as index    *)
(* label.  The database starts empty; save() may fail on any row.           *)

\* parse_uploaded_file returned None
NoFrame == [parsed |-> FALSE, index |-> "range", columns |-> <<>>,
            rows |-> <<>>]

Headers ==
    {<<<<"U", "R", "L">>, <<"t", "i", "t", "l", "e", " ">>, H1Col>>,
     <<UrlCol, TitleCol, H1Col, H2Col, PageTypeCol>>,
     <<UrlCol, TitleCol, H1Col, TypeCol>>,
     <<UrlCol, TitleCol>>,
     <<UrlCol, IntLabel>>,
     <<IntLabel, IntLabel>>,
     <<>>}

UrlCells   == {<<"/", "a">>, <<"/", "b", "u", "y">>, <<" ">>, NaN}
TitleCells == {<<"T">>, NaN}

\* The rows enumerated under a header: the cells of url and title vary, h1
\* is given, the other columns hold a sub-heading list or a page type.
RowPool(header) ==
    {[i \in 1..Len(header) |->
        LET col == Strip(Lower(header[i]))
        IN  IF col = UrlCol THEN u
            ELSE IF col = TitleCol THEN t
            ELSE IF col = H1Col THEN <<"H">>
            ELSE IF col = H2Col THEN <<"x", ";", " ", "y", ";">>
            ELSE IF col = PageTypeCol THEN NaN
            ELSE Guide] : u \in UrlCells, t \in TitleCells}

Frames ==
    {[parsed |-> TRUE, index |-> ix, columns |-> h, rows |-> r] :
        ix \in {"range", "labels"},
        h \in Headers,
        r \in UNION {StringsUpTo(RowPool(hh), MaxRows) : hh \in Headers}}

InitImport ==
    /\ pc = "import_call"
    /\ df \in {NoFrame} \cup
              {f \in Frames : f.rows \in StringsUpTo(RowPool(f.columns),
                                                      MaxRows)}
    /\ row_i = 0
    /\ imported = 0
    /\ errors = <<>>
    /\ data = EmptyData
    /\ db_file = NoFile
    /\ clock = 1
    /\ last_call = <<>>
    /\ ChunkIdle
    /\ AnchorIdle
    /\ GenIdle
    /\ ApplyIdle

\* lines 167-190: up to the loop
ImportStart ==
    /\ pc = "import_call"
    /\ LET missing_cols == MissingCols(NormColumns(df.columns))
       IN  IF ~df.parsed
           THEN pc' = "import_done" /\ errors' = <<>>
           ELSE IF StrAccessorRaises(df.columns)
           THEN pc' = "import_raised" /\ errors' = <<>>
           ELSE IF missing_cols # <<>>
           THEN /\ pc' = "import_done"
                /\ errors' = <<[row |-> 0,
                                text |-> "Missing required columns"]>>
           ELSE pc' = "import_rows" /\ errors' = <<>>
    /\ UNCHANGED <<df, row_i, imported, applyVars, chunkVars, anchorVars,
                   dbVars, genVars>>

\* lines 192-230: one turn of the loop
ImportRow ==
    /\ pc = "import_rows"
    /\ row_i < Len(df.rows)
    /\ \E save_ok \in BOOLEAN :
         LET idx == [int |-> df.index = "range", n |-> row_i]
             st  == [data |-> data, db_file |-> db_file,
                     imported |-> imported, errors |-> errors,
                     raised |-> FALSE]
             new == ImportOneRow(st, Row(NormColumns(df.columns),
                                         df.rows[row_i + 1]),
                                 idx, save_ok, clock)
         IN  /\ data' = new.data
             /\ db_file' = new.db_file
             /\ imported' = new.imported
             /\ errors' = new.errors
             /\ pc' = IF new.raised THEN "import_raised" ELSE "import_rows"
    /\ row_i' = row_i + 1
    /\ clock' = clock + 2
    /\ UNCHANGED <<df, last_call, applyVars, chunkVars, anchorVars, genVars>>

\* line 232
ImportReturn ==
    /\ pc = "import_rows"
    /\ row_i = Len(df.rows)
    /\ pc' = "import_done"
    /\ UNCHANGED <<importVars, applyVars, chunkVars, anchorVars, dbVars,
                   genVars>>

NextImport == ImportStart \/ ImportRow \/ ImportReturn

SpecImport == InitImport /\ [][NextImport]_vars

RequiredPresent ==
    df.parsed /\ MissingCols(NormColumns(df.columns)) = <<>>

\* C11: when the required columns are present import_urls_from_file never
\* raises for a failing row; every row handled so far was imported or left
\* exactly one message carrying its own row number, so that imported plus
\* the number of messages is the number of rows handled.
C11_Original ==
    (pc \in {"import_rows", "import_done", "import_raised"}
     /\ RequiredPresent) =>
        /\ pc # "import_raised"
        /\ imported + Len(errors) = row_i
        /\ \A k \in 1..Len(errors) : errors[k].row \in 2..(row_i + 1)
        /\ \A j, k \in 1..Len(errors) :
               j # k => errors[j].row # errors[k].row

\* The same statement for frames with the default integer index.
C11_HoldsWithRangeIndex == df.index = "range" => C11_Original

----------------------------------------------------------------------------
(* Specification SpecApply: the preview of lines 809-822 for every content  *)
(* of ApplyContents, every list of up to MaxAccepted suggestions for        *)
(* distinct URLs whose anchors are taken from the content (or are           *)
(* "Learn more"), and every set of accepted URLs.                           *)

ApplyContents ==
    {<<"a", "b", " ", "c", "d">>, <<"c", "d", " ", "a", "b", " ", "c", "d">>}
ApplyUrls    == {<<"/", "x">>, <<"/", "c", "d">>}
ApplyAnchors == {<<"a", "b">>, <<"c", "d">>, <<"a">>, LearnMore}

ApplySuggestions ==
    {s \in StringsUpTo([url : ApplyUrls, anchor_text : ApplyAnchors],
                       MaxAccepted) :
        \A i, j \in 1..Len(s) : i # j => s[i].url # s[j].url}

InitApply ==
    /\ pc = "apply_call"
    /\ content \in ApplyContents
    /\ suggestions \in ApplySuggestions
    /\ accepted_links \in
           {a \in StringsUpTo(UrlsOf(suggestions), MaxAccepted) :
               \A i, j \in 1..Len(a) : i # j => a[i] # a[j]}
    /\ rejected_links = <<>>
    /\ final_content = <<>>
    /\ landings = <<>>
    /\ chunk_size = 0 /\ chunks = <<>>
    /\ url_database = <<>> /\ max_suggestions = 0 /\ tfidf = <<>> /\ ci = 0
    /\ scored = <<>> /\ all_suggestions = <<>> /\ seen_urls = {}
    /\ diverse_suggestions = <<>> /\ pass1_urls = {}
    /\ calls = 0 /\ first_result = <<>>
    /\ AnchorIdle
    /\ DbIdle
    /\ ImportIdle

\* lines 809-822; the guard is that of line 809
ShowContentWithLinks ==
    /\ pc = "apply_call"
    /\ accepted_links # <<>>
    /\ LET done == ContentWithLinks(content, suggestions, accepted_links)
       IN  /\ final_content' = done.text
           /\ landings' = done.landings
    /\ pc' = "apply_done"
    /\ UNCHANGED <<accepted_links, rejected_links, importVars, chunkVars,
                   anchorVars, dbVars, genVars>>

NextApply == ShowContentWithLinks

SpecApply == InitApply /\ [][NextApply]_vars

\* C12: the final document is the original content in which, for each
\* accepted suggestion, the first occurrence of its anchor_text in the
\* original content is replaced by the link; no replacement lands inside the
\* markup of a link inserted for another accepted suggestion.
C12_Original ==
    pc = "apply_done" =>
        \A k \in 1..Len(landings) :
            LET s == AcceptedSuggestions(suggestions, accepted_links)[k]
            IN  /\ ~landings[k].inside
                /\ landings[k].original_pos = Find(content, s.anchor_text, 0)

----------------------------------------------------------------------------
(* Specification SpecExample: generate_suggestions with the similarity      *)
(* computed, for the contents and destinations of ExampleContents and       *)
(* ExamplePool, every catalog of up to two of the destinations in either    *)
(* order, and every limit in 0..MaxLimit.                                   *)

SeoContent ==
    <<"S", "E", "O", " ", "g", "u", "i", "d", "e", "s", " ", "h", "e", "l",
      "p", " ", "b", "e", "g", "i", "n", "n", "e", "r", "s", ".", " ", "K",
      "e", "y", "w", "o", "r", "d", " ", "r", "e", "s", "e", "a", "r", "c",
      "h", " ", "i", "s", " ", "s", "t", "e", "p", " ", "o", "n", "e", ".",
      " ", "C", "o", "n", "t", "e", "n", "t", " ", "m", "a", "r", "k", "e",
      "t", "i", "n", "g", " ", "d", "r", "i", "v", "e", "s", " ", "t", "r",
      "a", "f", "f", "i", "c", ".">>

SeoGuide    == <<"S", "E", "O", " ", "G", "u", "i", "d", "e">>
KeywordTool == <<"K", "e", "y", "w", "o", "r", "d", " ", "T", "o", "o", "l">>
ContentWord == <<"C", "o", "n", "t", "e", "n", "t">>

FindWord    == <<"F", "i", "n", "d">>
FindOne     == FindWord \o <<" ", "o", "n", "e", ".">>
SeoIs       == <<"S", "E", "O", " ", "i", "s", ".">>

ExampleContents == {SeoContent, SeoGuide, FindOne, SeoIs}

ExamplePool ==
    {<<"/A", Destination(SeoGuide, <<"U", "l", "t", "i", "m", "a", "t", "e",
                                     " ">> \o SeoGuide, "Guide")>>,
     <<"/B", Destination(KeywordTool,
                         <<"F", "i", "n", "d", " ", "K", "e", "y", "w", "o",
                           "r", "d", "s", " ", "F", "a", "s", "t">>,
                         "Product")>>,
     <<"/C", Destination(ContentWord, ContentWord, "Blog")>>,
     <<"/D", Destination(FindWord, FindWord, "Other")>>}

ExampleCatalogs ==
    {c \in StringsUpTo(ExamplePool, 2) :
        \A i, j \in 1..Len(c) : i # j => c[i][1] # c[j][1]}

InitExample ==
    /\ pc = "gen_call"
    /\ content \in ExampleContents
    /\ chunk_size = DefaultChunkSize
    /\ chunks = <<>>
    /\ url_database \in ExampleCatalogs
    /\ max_suggestions \in 0..MaxLimit
    /\ tfidf = [k \in {} |-> 0]
    /\ ci = 0
    /\ scored = <<>>
    /\ all_suggestions = <<>>
    /\ seen_urls = {}
    /\ diverse_suggestions = <<>>
    /\ pass1_urls = {}
    /\ suggestions = <<>>
    /\ calls = 1
    /\ first_result = <<>>
    /\ AnchorIdle
    /\ DbIdle
    /\ ImportIdle
    /\ ApplyIdle

\* One iteration of the loop over chunks (lines 390-431), the similarity of
\* each pair of texts being the one the vectorizer computes.
ScoreChunkComputed ==
    /\ pc = "gen_scoring"
    /\ ci <= Len(chunks)
    /\ ScoreChunkWith(chunks[ci], UrlTexts(url_database),
                      <<>> \o [i \in 1..Len(url_database) |->
                                  KeywordOverlap(chunks[ci].text,
                                                 UrlText(url_database[i][2]))],
                      {<<>> \o [i \in 1..Len(url_database) |->
                                  TfidfSimilarity(chunks[ci].text,
                                      UrlText(url_database[i][2]))]})
    /\ UNCHANGED <<importVars, applyVars,
                   content, chunk_size, chunks, anchorVars, dbVars,
                   url_database, max_suggestions, seen_urls,
                   diverse_suggestions, pass1_urls, suggestions, calls,
                   first_result>>

NextExample ==
    GenStart \/ ScoreChunkComputed \/ SelectPass1 \/ SelectPass2 \/ Finish

SpecExample == InitExample /\ [][NextExample]_vars

\* C13: for the content SeoContent, the catalog of destination A (title
\* "SEO Guide", h1 "Ultimate SEO Guide", Guide) and destination B (title
\* "Keyword Tool", h1 "Find Keywords Fast", Product) and limit 2,
\* generate_suggestions returns exactly two suggestions, one for A and one
\* for B, each with a score above 0 and an anchor text found in the chunk.
C13_Original ==
    (/\ pc = "gen_done"
     /\ content = SeoContent
     /\ max_suggestions = 2
     /\ {url_database[i][1] : i \in 1..Len(url_database)} = {"/A", "/B"}) =>
        /\ Len(suggestions) = 2
        /\ {suggestions[i].url : i \in 1..2} = {"/A", "/B"}
        /\ \A i \in 1..2 :
              /\ suggestions[i].score > 0
              /\ Contains(chunks[1].text, suggestions[i].anchor_text)

----------------------------------------------------------------------------
(* generate_suggestions: the order of the result, the two passes, the       *)
(* candidates of a chunk, the boost and the score (checked under Spec)      *)

SortedByScore(list) ==
    \A i, j \in 1..Len(list) : i < j => list[i].score >= list[j].score

\* C14: the list returned by generate_suggestions is ordered by score,
\* non-increasing from first to last, also when some suggestions were added
\* in pass 1 and others in pass 2.
C14_ResultSortedByScore == pc = "gen_done" => SortedByScore(suggestions)

\* A suggestion of pass 2 is returned before a suggestion of pass 1 with a
\* smaller score: the final sort moved it.
C14_Witness ==
    /\ pc = "gen_done"
    /\ ~SortedByScore(diverse_suggestions)
    /\ \E i, j \in 1..Len(suggestions) :
          /\ i < j
          /\ suggestions[i].url \notin pass1_urls
          /\ suggestions[j].url \in pass1_urls
          /\ suggestions[i].score > suggestions[j].score

\* The suggestions of `list` before place k that have the page type of the
\* k-th.
EarlierOfType(list, k) ==
    Cardinality({j \in 1..(k - 1) : list[j].page_type = list[k].page_type})

Pass2Selection ==
    SelectSeq(diverse_suggestions, LAMBDA s : s.url \notin pass1_urls)

\* The destinations with at least one candidate scored above 0.25.
UrlsAbovePass2Threshold ==
    {all_suggestions[i].url :
        i \in {j \in 1..Len(all_suggestions) :
                  all_suggestions[j].score > Pass2Threshold}}

\* C16: pass 2 adds suggestions only when pass 1 selected fewer than
\* `limit`; it adds, in descending score order and whatever their page
\* type, the destinations not yet selected that have a candidate above 0.25,
\* until `limit` is reached or the list is exhausted; so the number of
\* suggestions returned is the smaller of `limit` and the number of distinct
\* destinations with a candidate above 0.25.
C16_Pass2FillsUp ==
    /\ pc = "gen_final" =>
          /\ Pass2Selection # <<>> =>
                 Cardinality(pass1_urls) < max_suggestions
          /\ SortedByScore(Pass2Selection)
          /\ \A k \in 1..Len(Pass2Selection) :
                 Pass2Selection[k].score > Pass2Threshold
          /\ Len(diverse_suggestions) < max_suggestions =>
                 UrlsOf(diverse_suggestions) = UrlsAbovePass2Threshold
    /\ pc = "gen_done" =>
          Len(suggestions) =
              Min(max_suggestions, Cardinality(UrlsAbovePass2Threshold))

\* Pass 2 added a suggestion that pass 1 had turned down for its score, a
\* destination whose candidate is at or below 0.25 stayed out, and the list
\* is shorter than the limit.
C16_Witness ==
    /\ pc = "gen_done"
    /\ Len(suggestions) < max_suggestions
    /\ \E i \in 1..Len(suggestions) :
          /\ suggestions[i].url \notin pass1_urls
          /\ suggestions[i].score <= Pass1Threshold
    /\ \E i \in 1..Len(all_suggestions) :
          all_suggestions[i].url \notin UrlsOf(suggestions)

\* The candidates in all_suggestions that chunk c emitted.
CandidatesOf(c) ==
    SelectSeq(all_suggestions,
              LAMBDA s : /\ s.position = chunks[c].position
                         /\ s.context = Slice(chunks[c].text, 0, 150)
                                          \o <<".", ".", ".">>)

\* The places in `scored` of the scores of chunk c.
ScoredOf(c) == {k \in 1..Len(scored) : scored[k].chunk = c}

\* The number of destinations that precede the k-th scored pair in the
\* descending, stable order of its chunk's scores.
RankInChunk(k) ==
    Cardinality({j \in ScoredOf(scored[k].chunk) :
                    \/ scored[j].score > scored[k].score
                    \/ scored[j].score = scored[k].score /\ j < k})

\* C17: every chunk scored so far has emitted at most 3 candidates, for
\* distinct URLs, each with a boosted score above 0.20 that is among the 3
\* highest of the chunk; and every (chunk, destination) pair among the 3
\* highest with a boosted score above 0.20 has exactly one candidate.
C17_TopThreePerChunk ==
    pc = "gen_scoring" =>
        /\ \A i \in 1..Len(all_suggestions) :
              \E c \in 1..(ci - 1) :
                  \E j \in 1..Len(CandidatesOf(c)) :
                      CandidatesOf(c)[j] = all_suggestions[i]
        /\ \A c \in 1..(ci - 1) :
              LET cands == CandidatesOf(c) IN
              /\ Len(cands) <= 3
              /\ \A i, j \in 1..Len(cands) :
                     i # j => cands[i].url # cands[j].url
              /\ \A i \in 1..Len(cands) :
                     /\ cands[i].score > EmitThreshold
                     /\ \E k \in ScoredOf(c) :
                            /\ scored[k].url = cands[i].url
                            /\ scored[k].score = cands[i].score
                            /\ RankInChunk(k) < 3
              /\ \A k \in ScoredOf(c) :
                     (scored[k].score > EmitThreshold /\ RankInChunk(k) < 3)
                     => Cardinality({i \in 1..Len(cands) :
                                        cands[i].url = scored[k].url}) = 1

\* Four destinations scored above 0.20 for the first chunk and three
\* candidates were emitted for it.
C17_Witness ==
    /\ pc = "gen_scoring"
    /\ ci > 1
    /\ Cardinality({k \in ScoredOf(1) : scored[k].score > EmitThreshold}) = 4
    /\ Len(CandidatesOf(1)) = 3

----------------------------------------------------------------------------
(* Specification SpecBoost: generate_suggestions for a content of one       *)
(* chunk and catalogs of up to MaxUrls + 1 destinations, one per page type  *)
(* and one without the key page_type.                                       *)

BoostPool ==
    << <<"/blog",     Destination(Abab, Abab, "Blog")>>,
       <<"/product",  Destination(Cdcd, Cdcd, "Product")>>,
       <<"/glossary", Destination(Abab, Abab, "Glossary")>>,
       <<"/guide",    Destination(Cdcd, Cdcd, "Guide")>>,
       <<"/landing",  Destination(Abab, Abab, "Landing Page")>>,
       <<"/category", Destination(Cdcd, Cdcd, "Category")>>,
       <<"/other",    Destination(Abab, Abab, "Other")>>,
       <<"/untyped",  [h1 |-> Cdcd, title |-> Cdcd]>> >>

BoostCatalogs ==
    {PickFrom(BoostPool, 1, S) :
         S \in {T \in SUBSET (1..Len(BoostPool)) :
                   Cardinality(T) \in 1..(MaxUrls + 1)}}

InitBoost ==
    /\ pc = "gen_call"
    /\ content = Abab \o <<" ">> \o Cdcd \o <<".">>
    /\ chunk_size = DefaultChunkSize
    /\ chunks = <<>>
    /\ url_database \in BoostCatalogs
    /\ max_suggestions = MaxLimit
    /\ tfidf = [k \in {} |-> 0]
    /\ ci = 0
    /\ scored = <<>>
    /\ all_suggestions = <<>>
    /\ seen_urls = {}
    /\ diverse_suggestions = <<>>
    /\ pass1_urls = {}
    /\ suggestions = <<>>
    /\ calls = 1
    /\ first_result = <<>>
    /\ AnchorIdle
    /\ DbIdle
    /\ ImportIdle
    /\ ApplyIdle

SpecBoost == InitBoost /\ [][Next]_vars

\* The factor of the boost, in hundredths.
BoostPercent(page_type) ==
    IF page_type \in {"Product", "Glossary", "Guide"} THEN 110
    ELSE IF page_type = "Landing Page" THEN 105
    ELSE 100

\* The number of pairs that precede the k-th scored pair of its chunk when
\* the raw scores times their factors are put in descending, stable order.
RankByBoosted(k) ==
    LET boosted(j) ==
            scored[j].raw
              * BoostPercent(PageType(DictGet(url_database, scored[j].url)))
    IN  Cardinality({j \in ScoredOf(scored[k].chunk) :
                        \/ boosted(j) > boosted(k)
                        \/ boosted(j) = boosted(k) /\ j < k})

\* C18: the score of a pair is its raw relevance score times 1.10 for the
\* page types Product, Glossary and Guide, times 1.05 for Landing Page and
\* times 1.0 for every other page type; the candidates of a chunk are those
\* of the 3 highest boosted scores whose boosted score is above 0.20, and
\* they carry the boosted score.
C18_BoostBeforeRanking ==
    pc = "gen_scoring" =>
        \A k \in 1..Len(scored) :
            LET type == PageType(DictGet(url_database, scored[k].url))
                emitted == {i \in 1..Len(all_suggestions) :
                               /\ all_suggestions[i].url = scored[k].url
                               /\ all_suggestions[i].position
                                      = chunks[scored[k].chunk].position}
            IN  /\ scored[k].score * 100 = scored[k].raw * BoostPercent(type)
                /\ emitted # {} <=>
                       /\ scored[k].raw * BoostPercent(type)
                              > EmitThreshold * 100
                       /\ RankByBoosted(k) < 3
                /\ \A i \in emitted :
                       all_suggestions[i].score = scored[k].score

\* A Guide destination whose raw score is not above 0.20 has a candidate,
\* a Landing Page destination is boosted, and a boosted destination took the
\* third place from a destination earlier in the catalog with the same raw
\* score.
C18_Witness ==
    /\ pc = "gen_scoring"
    /\ ci > 1
    /\ \E k \in 1..Len(scored) :
          /\ PageType(DictGet(url_database, scored[k].url)) = "Guide"
          /\ scored[k].raw <= EmitThreshold
          /\ \E i \in 1..Len(all_suggestions) :
                 all_suggestions[i].url = "/guide"
    /\ \E k \in 1..Len(scored) :
          /\ scored[k].url = "/landing"
          /\ scored[k].score > scored[k].raw
    /\ \E j, k \in 1..Len(scored) :
          /\ j < k
          /\ scored[j].raw = scored[k].raw
          /\ RankByBoosted(k) < 3
          /\ RankByBoosted(j) >= 3

----------------------------------------------------------------------------
(* The relevance score *)

\* The lower-cased word tokens of four or more characters of a text.
LongTokens(s) == Words(Lower(s), 4)

\* The chunk and the destination text of the k-th scored pair.
ChunkTextOf(k) == chunks[scored[k].chunk].text
UrlTextOf(k)   == UrlText(DictGet(url_database, scored[k].url))

\* C19: the raw score of a chunk and a destination is 0.7 times their
\* similarity plus 0.3 times |chunk tokens \cap destination tokens| /
\* |chunk tokens|, the tokens being the lower-cased words of four or more
\* characters, and the second term 0 when the chunk has no such token; it
\* is exactly 0 when the vectorizer fails, whatever the overlap; the raw
\* score is within [0, 1] and the boosted score within [0, 1.1].
C19_RelevanceScore ==
    \A k \in 1..Len(scored) :
        LET chunk_tokens == LongTokens(ChunkTextOf(k))
            common       == chunk_tokens \cap LongTokens(UrlTextOf(k))
            n            == Cardinality(chunk_tokens)
        IN  /\ scored[k].sim = SimFail => scored[k].raw = 0
            /\ (scored[k].sim # SimFail /\ n = 0) =>
                   scored[k].raw * 100 = 70 * scored[k].sim * (ScoreScale \div 100)
            /\ (scored[k].sim # SimFail /\ n > 0) =>
                   scored[k].raw * 100 * n =
                       70 * scored[k].sim * (ScoreScale \div 100) * n
                         + 30 * Cardinality(common) * ScoreScale
            /\ scored[k].raw \in 0..ScoreScale
            /\ scored[k].score * 10 \in 0..(11 * ScoreScale)

\* The vectorizer failed for a chunk and a destination that share a token,
\* and the same chunk was scored without a failure against another
\* destination.
C19_Witness ==
    /\ \E k \in 1..Len(scored) :
          /\ scored[k].sim = SimFail
          /\ LongTokens(ChunkTextOf(k)) \cap LongTokens(UrlTextOf(k)) # {}
          /\ scored[k].raw = 0
    /\ \E k \in 1..Len(scored) : scored[k].sim # SimFail

----------------------------------------------------------------------------
(* The anchor chosen among several headings, checked under SpecAnchor *)

\* The destination's h1, title and sub-headings, in that order.
HeadingsInOrder(d) ==
    (IF "h1" \in DOMAIN d THEN <<d["h1"]>> ELSE <<>>)
      \o (IF "title" \in DOMAIN d THEN <<d["title"]>> ELSE <<>>)
      \o Get(d, "h2", <<>>)

\* A non-empty heading occurs in the text when both are compared in lower
\* case.
OccursIn(text, heading) ==
    heading # <<>> /\ Contains(Lower(text), Lower(heading))

\* The headings of d that occur in the text, in order.
MatchedHeadings(text, d) ==
    LET all  == HeadingsInOrder(d)
        hits == {i \in 1..Len(all) : OccursIn(text, all[i])}
        nth(k) == CHOOSE i \in hits : Cardinality({j \in hits : j < i}) = k - 1
    IN  [k \in 1..Cardinality(hits) |-> all[nth(k)]]

\* The longest of a non-empty sequence of headings, the first of these if
\* several are equally long.
FirstLongest(hs) ==
    hs[CHOOSE i \in 1..Len(hs) :
           /\ \A j \in 1..Len(hs) : Len(hs[j]) <= Len(hs[i])
           /\ \A j \in 1..(i - 1) : Len(hs[j]) < Len(hs[i])]

\* The anchor is the chunk's own spelling of the heading.
SpellingInChunk(text, a, heading) ==
    /\ Lower(a) = Lower(heading)
    /\ Contains(text, a)

\* C20 as stated: when at least one of h1, title and the sub-headings
\* occurs in the chunk case-insensitively, the anchor is the chunk's
\* original-cased substring at a match of the longest heading that occurs,
\* the first in the order h1, title, sub-headings among equally long ones.
C20_Original ==
    (pc = "anchor_done" /\ MatchedHeadings(chunk, url_data) # <<>>) =>
        SpellingInChunk(chunk, anchor,
                        FirstLongest(MatchedHeadings(chunk, url_data)))

\* The statement holds for the chunks whose lower-case form has as many
\* characters as the chunk.
C20_HoldsWhenLowerKeepsLength ==
    (/\ pc = "anchor_done"
     /\ MatchedHeadings(chunk, url_data) # <<>>
     /\ Len(Lower(chunk)) = Len(chunk)) =>
        SpellingInChunk(chunk, anchor,
                        FirstLongest(MatchedHeadings(chunk, url_data)))

----------------------------------------------------------------------------
(* The fallback anchor, checked under SpecAnchor *)

\* The h1 if the destination has a non-empty one, else the title if it has
\* a non-empty one, else "Learn more".
FirstNonEmptyHeading(d) ==
    IF Get(d, "h1", <<>>) # <<>> THEN d["h1"]
    ELSE IF Get(d, "title", <<>>) # <<>> THEN d["title"]
    ELSE LearnMore

\* C21 as stated: when none of h1, title and the sub-headings occurs in the
\* chunk, the anchor is the h1 if it is non-empty, otherwise the title if
\* it is non-empty, otherwise "Learn more", for every destination, those
\* with an empty h1 or an empty sub-heading included.
C21_Original ==
    (pc = "anchor_done" /\ MatchedHeadings(chunk, url_data) = <<>>) =>
        anchor = FirstNonEmptyHeading(url_data)

\* The statement holds for the destinations without an empty h1, title or
\* sub-heading.
C21_HoldsWithoutEmptyHeadings ==
    (/\ pc = "anchor_done"
     /\ MatchedHeadings(chunk, url_data) = <<>>
     /\ \A i \in 1..Len(HeadingsInOrder(url_data)) :
            HeadingsInOrder(url_data)[i] # <<>>) =>
        anchor = FirstNonEmptyHeading(url_data)

----------------------------------------------------------------------------
(* The size of chunks, checked under SpecChunk *)

\* The buffer a chunk text was stripped from: the text and the blank that
\* followed its last full stop.
BufferLen(text) == Len(text) + 1

\* C22: a chunk is closed, and the next sentence starts a new buffer,
\* exactly when the buffer with that sentence would reach or exceed
\* chunk_size: every chunk followed by another one would have reached
\* chunk_size with the first sentence of its successor, every chunk of
\* more than one sentence has a text of at most chunk_size characters, and
\* only a chunk of a single sentence is longer.
C22_ChunkClosedAtSize ==
    pc = "chunk_done" =>
        /\ \A i \in 1..(Len(chunks) - 1) :
               BufferLen(chunks[i].text)
                   + Len(TrimmedSentences(chunks[i + 1].text)[1]) >= chunk_size
        /\ \A i \in 1..Len(chunks) :
               LET sentences == TrimmedSentences(chunks[i].text)
               IN  /\ Len(sentences) > 1 => Len(chunks[i].text) <= chunk_size
                   /\ Len(chunks[i].text) > chunk_size => Len(sentences) = 1

\* A chunk of two sentences whose text has exactly chunk_size characters
\* was closed by a third sentence.
C22_Witness ==
    /\ pc = "chunk_done"
    /\ Len(chunks) >= 2
    /\ Len(TrimmedSentences(chunks[1].text)) = 2
    /\ Len(chunks[1].text) = chunk_size

----------------------------------------------------------------------------
(* The positions of chunks, checked under SpecChunk *)

\* The number of places where sub occurs in s.
Occurrences(s, sub) ==
    Cardinality({i \in 0..(Len(s) - Len(sub)) : OccursAt(s, sub, i)})

\* No sentence of the content occurs in it a second time, inside another
\* sentence or not.
SentencesOccurOnce(cont) ==
    \A i \in 1..Len(TrimmedSentences(cont)) :
        Occurrences(cont, TrimmedSentences(cont)[i]) = 1

\* The first sentence of the i-th chunk.
FirstSentence(i) == TrimmedSentences(chunks[i].text)[1]

PositionsOrdered ==
    /\ \A i \in 1..Len(chunks) : chunks[i].position >= 0
    /\ \A i \in 1..(Len(chunks) - 1) :
           chunks[i].position <= chunks[i + 1].position

\* C23 as stated: when no sentence occurs twice in the content, the
\* position of every chunk, the first one included, is the index in the
\* content of the first character of the chunk's first sentence; and for
\* every content the positions are at least 0 and non-decreasing.
C23_Original ==
    pc = "chunk_done" =>
        /\ SentencesOccurOnce(content) =>
               \A i \in 1..Len(chunks) :
                   chunks[i].position = Find(content, FirstSentence(i), 0)
        /\ PositionsOrdered

\* The statement holds for the chunks after the first one, and the
\* positions are ordered for every content.
C23_HoldsAfterFirstChunk ==
    pc = "chunk_done" =>
        /\ SentencesOccurOnce(content) =>
               \A i \in 2..Len(chunks) :
                   chunks[i].position = Find(content, FirstSentence(i), 0)
        /\ PositionsOrdered

----------------------------------------------------------------------------
(* Specification SpecImportTypes: import_urls_from_file for files with the  *)
(* columns url, title, h1 and page_type or type, and up to MaxRows of the   *)
(* rows of TypedRows.                                                       *)

TypedHeaders ==
    {<<UrlCol, TitleCol, H1Col, PageTypeCol>>,
     <<UrlCol, TitleCol, H1Col, TypeCol>>}

TypedRows ==
    {<<<<"/", "a">>, <<"T">>, <<"H">>, NaN>>,
     <<<<"/", "s", "h", "o", "p", "/", "x">>, <<"G", "l", "o", "s", "s",
       "a", "r", "y">>, <<"H">>, <<>>>>,
     <<<<"/", "a">>, <<"W", "h", "a", "t">>, <<"i", "s", " ", "i", "t">>,
       NaN>>,
     <<<<"/", "a">>, <<"G", "u", "i", "d", "e", " ", "t", "i", "p", "s">>,
       <<"H">>, <<" ">>>>,
     <<<<"/", "b", "l", "o", "g", "/", "t">>, <<"C", "a", "t", "e", "g",
       "o", "r", "i", "e", "s">>, <<"H">>, NaN>>,
     <<<<"/", "a">>, <<"C", "o", "l", "l", "e", "c", "t", "i", "o", "n">>,
       <<"S", "e", "r", "v", "i", "c", "e", "s">>, NaN>>,
     <<<<"/", "b">>, <<"T">>, <<"S", "o", "l", "u", "t", "i", "o", "n",
       "s">>, NaN>>,
     <<<<"/", "c">>, <<"P", "r", "i", "c", "e">>, <<"H">>, <<" ", "B", "l",
       "o", "g">>>>,
     <<<<"/", "b">>, <<"T">>, <<"H">>, Guide>>,
     <<<<"/", "a">>, NaN, <<"H">>, Guide>>,
     <<<<"/", "b">>, <<"B", "U", "Y">>, <<"H">>, NaN>>}

InitImportTypes ==
    /\ pc = "import_call"
    /\ df \in {[parsed |-> TRUE, index |-> "range", columns |-> h,
                rows |-> r] :
                  h \in TypedHeaders, r \in StringsUpTo(TypedRows, MaxRows)}
    /\ row_i = 0
    /\ imported = 0
    /\ errors = <<>>
    /\ data = EmptyData
    /\ db_file = NoFile
    /\ clock = 1
    /\ last_call = <<>>
    /\ ChunkIdle
    /\ AnchorIdle
    /\ GenIdle
    /\ ApplyIdle

SpecImportTypes == InitImportTypes /\ [][NextImport]_vars

\* The j-th row of the frame and its trimmed text under a column.
FrameRow(j) == Row(NormColumns(df.columns), df.rows[j])
CellText(j, col) == Strip(Str(DictGet(FrameRow(j), col)))

\* The row has a url, a title and an h1.
HasRequired(j) ==
    \A col \in {UrlCol, TitleCol, H1Col} :
        CellText(j, col) \notin {<<>>, NanText}

\* The rows handled so far that were put into the catalog, none of them
\* followed by such a row of the same url.
StoredRows ==
    {j \in 1..row_i :
        /\ HasRequired(j)
        /\ \A k \in (j + 1)..row_i :
               HasRequired(k) => CellText(k, UrlCol) # CellText(j, UrlCol)}

\* The cell under page_type, and whether it is missing or blank.
PageTypeCell(j) == DictGet(FrameRow(j), PageTypeCol)
PageTypeAbsent(j) == CellText(j, PageTypeCol) \in {<<>>, NanText}

\* The categories in the order of detection, with their keywords.
DetectionOrder ==
    <<[type |-> Product,     words |-> ProductWords],
      [type |-> Glossary,    words |-> GlossaryWords],
      [type |-> Guide,       words |-> GuideWords],
      [type |-> Blog,        words |-> BlogWords],
      [type |-> Category,    words |-> CategoryWords],
      [type |-> LandingPage, words |-> LandingWords]>>

\* The first category one of whose keywords occurs in the lower-cased url,
\* title and h1 of the row, Other if there is none.
FirstCategory(j) ==
    LET text == Lower(CellText(j, UrlCol)) \o <<" ">>
                \o Lower(CellText(j, TitleCol)) \o <<" ">>
                \o Lower(CellText(j, H1Col))
        hits == {c \in 1..Len(DetectionOrder) :
                    \E w \in DetectionOrder[c].words : Contains(text, w)}
    IN  IF hits = {} THEN Other
        ELSE DetectionOrder[CHOOSE c \in hits : \A d \in hits : c <= d].type

StoredPageType(j) == DictGet(data.urls, CellText(j, UrlCol)).page_type

\* C24 as stated: the page type stored for a row is the first category, in
\* the order Product, Glossary, Guide, Blog, Category, Landing, one of
\* whose keywords occurs in the lower-cased url, title and h1, and Other
\* exactly when no keyword occurs, when the row's page_type is absent; a
\* provided page_type is stored unchanged.
C24_Original ==
    pc \in {"import_rows", "import_done"} =>
        \A j \in StoredRows :
            StoredPageType(j) = IF PageTypeAbsent(j) THEN FirstCategory(j)
                                ELSE PageTypeCell(j)

\* C24 amended: a provided page_type is stored with the blanks around it
\* removed.
C24_DetectedOrTrimmed ==
    pc \in {"import_rows", "import_done"} =>
        \A j \in StoredRows :
            /\ StoredPageType(j) = IF PageTypeAbsent(j) THEN FirstCategory(j)
                                   ELSE Strip(PageTypeCell(j))
            /\ (PageTypeAbsent(j) /\ StoredPageType(j) = Other) <=>
                   (PageTypeAbsent(j) /\
                    \A c \in 1..Len(DetectionOrder) :
                        \A w \in DetectionOrder[c].words :
                            ~Contains(Lower(CellText(j, UrlCol)) \o <<" ">>
                                      \o Lower(CellText(j, TitleCol))
                                      \o <<" ">> \o Lower(CellText(j, H1Col)),
                                      w))

\* A row with keywords of Guide and of Blog was stored as Guide, and a row
\* whose page_type has a blank in front was stored under the trimmed type.
C24_Witness ==
    /\ pc = "import_done"
    /\ \E j \in StoredRows :
          /\ PageTypeAbsent(j)
          /\ StoredPageType(j) = Guide
          /\ \E w \in BlogWords :
                 Contains(Lower(CellText(j, TitleCol)), w)
    /\ \E j \in StoredRows :
          /\ ~PageTypeAbsent(j)
          /\ PageTypeCell(j) # Strip(PageTypeCell(j))
          /\ StoredPageType(j) = Strip(PageTypeCell(j))

----------------------------------------------------------------------------
(* Missing columns and missing fields, checked under SpecImport *)

\* The table has no column whose name, trimmed and in lower case, is col.
LacksColumn(col) ==
    \A i \in 1..Len(df.columns) :
        \/ df.columns[i] = IntLabel
        \/ Strip(Lower(df.columns[i])) # col

LacksRequired == \E col \in {UrlCol, TitleCol, H1Col} : LacksColumn(col)

\* Every entry of the catalog has a url, a title and an h1.
NoEntryWithoutRequired ==
    \A i \in 1..Len(data.urls) :
        /\ data.urls[i][1] \notin {<<>>, NanText}
        /\ data.urls[i][2].title \notin {<<>>, NanText}
        /\ data.urls[i][2].h1 \notin {<<>>, NanText}
        /\ \E j \in 1..row_i :
               /\ HasRequired(j)
               /\ CellText(j, UrlCol) = data.urls[i][1]

\* C25 as stated: for a table that lacks one of the columns url, title and
\* h1, names compared in lower case after trimming, the import returns 0
\* imported and a single message and leaves the catalog as it was; and no
\* row with an empty url, title or h1 is added to the catalog.
C25_Original ==
    /\ (df.parsed /\ LacksRequired /\ pc # "import_call") =>
           /\ pc = "import_done"
           /\ imported = 0
           /\ Len(errors) = 1
           /\ data = EmptyData
           /\ db_file = NoFile
    /\ (df.parsed /\ ~LacksRequired /\ pc # "import_call") =>
           NoEntryWithoutRequired

\* The statement holds for the tables that have a column name that is a
\* string, and for the tables without columns.
C25_HoldsForTextHeaders ==
    ~StrAccessorRaises(df.columns) => C25_Original

----------------------------------------------------------------------------
(* The suggestions returned and the candidates, checked under Spec *)

\* The places in all_suggestions of the candidates for a URL.
CandidatesFor(url) ==
    {k \in 1..Len(all_suggestions) : all_suggestions[k].url = url}

\* The candidate for a URL that the descending, stable sort puts first.
BestCandidate(url) ==
    all_suggestions[CHOOSE k \in CandidatesFor(url) :
                        \A j \in CandidatesFor(url) :
                            \/ all_suggestions[j].score
                                   < all_suggestions[k].score
                            \/ /\ all_suggestions[j].score
                                      = all_suggestions[k].score
                               /\ k <= j]

\* C26: every suggestion returned is, in all its fields, the candidate of
\* the highest score emitted for its URL, the first of them in the
\* descending sort, and its score is the boosted score computed for its
\* chunk and URL; this holds for the suggestions of pass 1 and of pass 2.
C26_BestCandidateReturned ==
    pc = "gen_done" =>
        \A i \in 1..Len(suggestions) :
            /\ CandidatesFor(suggestions[i].url) # {}
            /\ suggestions[i] = BestCandidate(suggestions[i].url)
            /\ \A j \in CandidatesFor(suggestions[i].url) :
                   all_suggestions[j].score <= suggestions[i].score
            /\ \E k \in 1..Len(scored) :
                   /\ scored[k].url = suggestions[i].url
                   /\ chunks[scored[k].chunk].position
                          = suggestions[i].position
                   /\ scored[k].score = suggestions[i].score

\* A suggestion of pass 1 and a suggestion of pass 2 are returned, the
\* latter for a URL that has a second candidate with a smaller score.
C26_Witness ==
    /\ pc = "gen_done"
    /\ \E i, j \in 1..Len(suggestions) :
          /\ suggestions[i].url \in pass1_urls
          /\ suggestions[j].url \notin pass1_urls
          /\ \E k \in CandidatesFor(suggestions[j].url) :
                 all_suggestions[k].score < suggestions[j].score

----------------------------------------------------------------------------
(* The lowest score returned, checked under Spec *)

\* C27: every suggestion returned has a score above 0.25; a candidate with
\* a score above 0.20 and not above 0.25 is never returned, also when fewer
\* than max_suggestions suggestions are returned.
C27_ReturnedAboveQuarter ==
    pc = "gen_done" =>
        \A i \in 1..Len(suggestions) : suggestions[i].score * 4 > ScoreScale

\* Fewer suggestions than max_suggestions are returned while a destination
\* that is not returned has a candidate with a score above 0.20 and not
\* above 0.25.
C27_Witness ==
    /\ pc = "gen_done"
    /\ Len(suggestions) < max_suggestions
    /\ \E k \in 1..Len(all_suggestions) :
          /\ all_suggestions[k].score * 5 > ScoreScale
          /\ all_suggestions[k].score * 4 <= ScoreScale
          /\ all_suggestions[k].url \notin UrlsOf(suggestions)

----------------------------------------------------------------------------
(* Specification SpecUi: the session state of main under the buttons        *)
(* Analyze, Accept and Reject and the changes of the catalog made in the    *)
(* sidebar, for the contents of UiContents and the catalogs of UiCatalogs.  *)

\* The candidates of the chunks i.. (lines 390-431), the similarity being
\* the one the vectorizer computes.
RECURSIVE AllCandidates(_, _, _)
AllCandidates(chs, db, i) ==
    IF i > Len(chs) THEN <<>>
    ELSE LET overlap == <<>> \o [k \in 1..Len(db) |->
                            KeywordOverlap(chs[i].text, UrlText(db[k][2]))]
             sims    == <<>> \o [k \in 1..Len(db) |->
                            TfidfSimilarity(chs[i].text, UrlText(db[k][2]))]
         IN  ChunkCandidates(chs[i], db, ChunkScores(db, overlap, sims).scores)
             \o AllCandidates(chs, db, i + 1)

\* generate_suggestions as a whole (lines 366-481).
GenerateSuggestions(cont, db, limit) ==
    LET start  == StartGenerate(db, cont)
        sorted == SortByScoreDesc(AllCandidates(start.chunks, db, 1))
        first  == Pass1(sorted, 1, SelectionStart, limit)
        second == Pass2(sorted, [first EXCEPT !.stopped = FALSE], limit)
    IN  IF start.pc = "gen_done" THEN <<>>
        ELSE FinalResult(second.diverse_suggestions, limit)

UiText ==
    SeoGuide \o <<".", " ">> \o KeywordTool \o <<".", " ">> \o ContentWord

UiContents == {<<>>, <<" ">>, SeoGuide, UiText}

UiPool ==
    << <<"/A", Destination(SeoGuide, SeoGuide, "Guide")>>,
       <<"/B", Destination(KeywordTool, KeywordTool, "Product")>>,
       <<"/C", Destination(UiText, ContentWord, "Blog")>> >>

UiCatalogs == {PickFrom(UiPool, 1, S) : S \in SUBSET (1..Len(UiPool))}

\* lines 491-498: a new session
InitUi ==
    /\ pc = "ui"
    /\ suggestions = <<>>
    /\ accepted_links = <<>>
    /\ rejected_links = <<>>
    /\ content = <<>>
    /\ url_database \in UiCatalogs
    /\ chunk_size = 0 /\ chunks = <<>>
    /\ max_suggestions = 0 /\ tfidf = <<>> /\ ci = 0
    /\ scored = <<>> /\ all_suggestions = <<>> /\ seen_urls = {}
    /\ diverse_suggestions = <<>> /\ pass1_urls = {}
    /\ calls = 0 /\ first_result = <<>>
    /\ final_content = <<>> /\ landings = <<>>
    /\ AnchorIdle
    /\ DbIdle
    /\ ImportIdle

\* The button Analyze (lines 783-806), pressed with the text `cont` in the
\* editor and the slider at `limit`; `content` is
\* st.session_state.current_content.
Analyze ==
    /\ pc = "ui"
    /\ \E cont \in UiContents, limit \in 5..MaxLimit :
          IF cont = <<>> \/ Len(url_database) = 0
          THEN UNCHANGED <<suggestions, accepted_links, rejected_links,
                           content, max_suggestions>>
          ELSE /\ suggestions' = GenerateSuggestions(cont, url_database, limit)
               /\ accepted_links' = <<>>
               /\ rejected_links' = <<>>
               /\ content' = cont
               /\ max_suggestions' = limit
    /\ UNCHANGED <<pc, chunk_size, chunks, url_database, tfidf, ci, scored,
                   all_suggestions, seen_urls, diverse_suggestions,
                   pass1_urls, calls, first_result, final_content, landings,
                   anchorVars, dbVars, importVars>>

\* The suggestions whose buttons would be drawn if only the rejected ones
\* were skipped.
OfferedAfterAccept ==
    {idx \in 1..Len(suggestions) :
        \A i \in 1..Len(rejected_links) :
            rejected_links[i] # suggestions[idx].url}

\* The suggestions whose buttons are drawn (lines 853-861).
Offered ==
    {idx \in 1..Len(suggestions) :
        /\ \A i \in 1..Len(rejected_links) :
               rejected_links[i] # suggestions[idx].url
        /\ \A i \in 1..Len(accepted_links) :
               accepted_links[i] # suggestions[idx].url}

\* The button accept_idx (lines 902-904)
Accept ==
    /\ pc = "ui"
    /\ \E idx \in Offered :
          accepted_links' = Append(accepted_links, suggestions[idx].url)
    /\ UNCHANGED <<pc, rejected_links, final_content, landings, chunkVars,
                   genVars, anchorVars, dbVars, importVars>>

\* The button reject_idx (lines 907-909)
Reject ==
    /\ pc = "ui"
    /\ \E idx \in Offered :
          rejected_links' = Append(rejected_links, suggestions[idx].url)
    /\ UNCHANGED <<pc, accepted_links, final_content, landings, chunkVars,
                   genVars, anchorVars, dbVars, importVars>>

\* The buttons of the sidebar that add, import, delete and clear URLs
\* (lines 573-759): the catalog changes, the session's lists do not.
ChangeCatalog ==
    /\ pc = "ui"
    /\ url_database' \in UiCatalogs \ {url_database}
    /\ UNCHANGED <<pc, applyVars, chunkVars, anchorVars, dbVars, importVars,
                   max_suggestions, tfidf, ci, scored, all_suggestions,
                   seen_urls, diverse_suggestions, pass1_urls, suggestions,
                   calls, first_result>>

NextUi == Analyze \/ Accept \/ Reject \/ ChangeCatalog

SpecUi == InitUi /\ [][NextUi]_vars

NoUrlTwice(list) == \A i, j \in 1..Len(list) : i # j => list[i] # list[j]

\* The two lists have no URL in common, hold no URL twice and hold only
\* URLs of the current suggestions.
C28_ListsDisjoint ==
    /\ Range(accepted_links) \cap Range(rejected_links) = {}
    /\ NoUrlTwice(accepted_links)
    /\ NoUrlTwice(rejected_links)
    /\ Range(accepted_links) \cup Range(rejected_links)
           \subseteq UrlsOf(suggestions)

\* The URLs of the suggestions that are in neither list.
UrlsOffered ==
    UrlsOf(suggestions) \ (Range(accepted_links) \cup Range(rejected_links))

\* Every step leaves the suggestions and both lists as they are, or puts
\* new suggestions in place and empties both lists, the content and the
\* catalog not being empty, or appends to one list the URL of a suggestion
\* that is in neither.
StepsAllowed ==
    [][\/ UNCHANGED <<suggestions, accepted_links, rejected_links>>
       \/ /\ url_database # <<>>
          /\ content' # <<>>
          /\ accepted_links' = <<>>
          /\ rejected_links' = <<>>
       \/ /\ UNCHANGED <<suggestions, rejected_links>>
          /\ \E u \in UrlsOffered : accepted_links' = Append(accepted_links, u)
       \/ /\ UNCHANGED <<suggestions, accepted_links>>
          /\ \E u \in UrlsOffered :
                 rejected_links' = Append(rejected_links, u)]_vars

\* C28: in every state reached by Analyze, Accept and Reject the two lists
\* are disjoint, hold no URL twice and hold only URLs of the current
\* suggestions; an Analyze that goes through empties both lists, Accept
\* and Reject act only on suggestions in neither list, and an Analyze turned
\* down for an empty content or an empty catalog changes nothing.
C28_SessionLists == []C28_ListsDisjoint /\ StepsAllowed

\* One suggestion is accepted, another rejected and a third one still
\* offered.
C28_Witness ==
    /\ Len(accepted_links) >= 1
    /\ Len(rejected_links) >= 1
    /\ Len(suggestions) > Len(accepted_links) + Len(rejected_links)

====
